---- MODULE Spec2Model ----
(***************************************************************************)
(* Mechanism state machine of ykcs11 (src/ykcs11/mechanisms.c): the sign,  *)
(* verify, digest and decrypt protocols driven over one session's          *)
(* op_info, with the objects they allocate and release.                    *)
(*                                                                         *)
(* Byte strings are symbolic: a buffer's content is a sequence of layers   *)
(* (op, n, h, g) that says how its bytes were produced; lengths are the    *)
(* numbers the code computes with.                                         *)
(***************************************************************************)
EXTENDS Integers, Sequences, FiniteSets, TLC

\* ------------------------------------------------------------------ bounds
\* Width of CK_ULONG in bits, scaled down so that 2^ULONG_BITS is a model integer.
ULONG_BITS == 12
\* Object slots of the allocator; an allocation fails when none is free.
MaxObjs == 3
\* Updates the caller issues within one operation.
MaxUpdates == 2
\* Final calls the caller issues within one operation (the first and its retries).
MaxFinals == 2
\* Operations the caller starts on the session.
MaxOps == 2
\* Bytes in each half of a fixed-width EC signature (target_output_len / 2).
HalfLen == 2

ULONG_MOD == 2 ^ ULONG_BITS

\* ------------------------------------------------------------------ values
NULL == 0
BUF_SIZE == 1024
PSS_PARAMS_SIZE == 24
OAEP_PARAMS_SIZE == 40

RSA_PKCS1_PADDING == 1
RSA_NO_PADDING == 3
RSA_PKCS1_OAEP_PADDING == 4
RSA_PKCS1_PSS_PADDING == 6

CKR_OK == "CKR_OK"
CKR_HOST_MEMORY == "CKR_HOST_MEMORY"
CKR_FUNCTION_FAILED == "CKR_FUNCTION_FAILED"
CKR_ARGUMENTS_BAD == "CKR_ARGUMENTS_BAD"
CKR_DATA_LEN_RANGE == "CKR_DATA_LEN_RANGE"
CKR_DEVICE_ERROR == "CKR_DEVICE_ERROR"
CKR_KEY_TYPE_INCONSISTENT == "CKR_KEY_TYPE_INCONSISTENT"
CKR_MECHANISM_INVALID == "CKR_MECHANISM_INVALID"
CKR_MECHANISM_PARAM_INVALID == "CKR_MECHANISM_PARAM_INVALID"
CKR_SIGNATURE_INVALID == "CKR_SIGNATURE_INVALID"
CKR_USER_NOT_LOGGED_IN == "CKR_USER_NOT_LOGGED_IN"
CKR_BUFFER_TOO_SMALL == "CKR_BUFFER_TOO_SMALL"

YKPIV_OK == "YKPIV_OK"
YKPIV_AUTHENTICATION_ERROR == "YKPIV_AUTHENTICATION_ERROR"
\* Statuses of the hardware interface.
PivStatuses ==
  {YKPIV_OK, YKPIV_AUTHENTICATION_ERROR, "YKPIV_PCSC_ERROR", "YKPIV_GENERIC_ERROR"}

\* Mechanism identifiers the module switches on.
SignNoHashMechs ==
  {"CKM_RSA_X_509", "CKM_RSA_PKCS", "CKM_RSA_PKCS_PSS", "CKM_ECDSA", "CKM_EDDSA"}

HashedPkcsMechs ==
  {"CKM_SHA1_RSA_PKCS", "CKM_SHA256_RSA_PKCS", "CKM_SHA384_RSA_PKCS",
   "CKM_SHA512_RSA_PKCS"}

HashedPssMechs ==
  {"CKM_SHA1_RSA_PKCS_PSS", "CKM_SHA256_RSA_PKCS_PSS", "CKM_SHA384_RSA_PKCS_PSS",
   "CKM_SHA512_RSA_PKCS_PSS"}

HashedEcdsaMechs ==
  {"CKM_ECDSA_SHA1", "CKM_ECDSA_SHA224", "CKM_ECDSA_SHA256", "CKM_ECDSA_SHA384",
   "CKM_ECDSA_SHA512"}

PssMechs == {"CKM_RSA_PKCS_PSS"} \cup HashedPssMechs

DigestMechs == {"CKM_SHA_1", "CKM_SHA256", "CKM_SHA384", "CKM_SHA512"}

\* Identifiers a caller can pass that no switch of the sign path accepts.
OtherMechs ==
  {"CKM_MD5_RSA_PKCS", "CKM_RIPEMD160_RSA_PKCS", "CKM_SHA224_RSA_PKCS",
   "CKM_RSA_PKCS_OAEP", "CKM_SHA256", "CKM_ECDSA_KEY_PAIR_GEN"}

\* Hash and MGF identifiers of a parameter block; CKM_SHA224 and CKM_MD5 are
\* identifiers the Digest Selector does not know.
HashIds ==
  {"CKM_SHA_1", "CKM_SHA256", "CKM_SHA384", "CKM_SHA512", "CKM_SHA224", "CKM_MD5",
   "CKG_MGF1_SHA1", "CKG_MGF1_SHA224", "CKG_MGF1_SHA256", "CKG_MGF1_SHA384",
   "CKG_MGF1_SHA512"}

\* ------------------------------------------------------------------ Digest Selector
\* "none" stands for the NULL descriptor.
EVP_MD_by_mechanism(m) ==
  CASE m \in {"CKM_SHA_1", "CKG_MGF1_SHA1"} -> "sha1"
    [] m = "CKG_MGF1_SHA224" -> "sha224"
    [] m \in {"CKM_SHA256", "CKG_MGF1_SHA256"} -> "sha256"
    [] m \in {"CKM_SHA384", "CKG_MGF1_SHA384"} -> "sha384"
    [] m \in {"CKM_SHA512", "CKG_MGF1_SHA512"} -> "sha512"
    [] OTHER -> "none"

\* Variant of EVP_MD_size that knows one length only.
EVP_MD_size_Fixed(md) == IF md = "none" THEN 0 ELSE 32

EVP_MD_size(md) ==
  CASE md = "sha1" -> 20
    [] md = "sha224" -> 28
    [] md = "sha256" -> 32
    [] md = "sha384" -> 48
    [] md = "sha512" -> 64
    [] OTHER -> 0

\* ------------------------------------------------------------------ keys
NoKey == "none"
Keys == {"RSA2048", "ECCP256", "ECCP384", "ED25519"}

EVP_PKEY_get0_RSA(key) == key = "RSA2048"

do_get_key_algorithm(key) ==
  CASE key = "RSA2048" -> "YKPIV_ALGO_RSA2048"
    [] key = "ECCP256" -> "YKPIV_ALGO_ECCP256"
    [] key = "ECCP384" -> "YKPIV_ALGO_ECCP384"
    [] key = "ED25519" -> "YKPIV_ALGO_ED25519"
    [] OTHER -> "0"

do_get_signature_size(key) ==
  CASE key = "RSA2048" -> 256
    [] key = "ECCP256" -> 64
    [] key = "ECCP384" -> 96
    [] key = "ED25519" -> 64
    [] OTHER -> 0

do_get_key_type(key) == IF key = "RSA2048" THEN "CKK_RSA" ELSE "CKK_EC"

\* ------------------------------------------------------------------ memory
\* An object slot: a hash context (EVP_MD_CTX), a verification context
\* (EVP_PKEY_CTX, owner = the hash context that owns it, or NULL) or a label
\* buffer.  fed = bytes streamed into a hash context, fin = it was finalised.
FreeObj == [live |-> FALSE, kind |-> "-", owner |-> NULL, md |-> "none", fed |-> 0,
            fin |-> FALSE]

ObjIds == 1..MaxObjs

FreeIds(m) == {i \in ObjIds : ~m.heap[i].live}

\* The slot an allocation takes; NULL when the allocation fails.
NewId(m, ok) ==
  IF ok /\ FreeIds(m) # {} THEN CHOOSE i \in FreeIds(m) : \A j \in FreeIds(m) : i <= j
  ELSE NULL

Alloc(m, id, kind, owner, md) ==
  IF id = NULL THEN m
  ELSE [m EXCEPT !.heap[id] = [live |-> TRUE, kind |-> kind, owner |-> owner,
                               md |-> md, fed |-> 0, fin |-> FALSE]]

\* Releasing an object releases what it owns; releasing one that is not live
\* is a double free.  Releasing NULL does nothing.
Release(m, id) ==
  IF id = NULL THEN m
  ELSE IF ~m.heap[id].live THEN [m EXCEPT !.faults = @ \cup {"double_free"}]
  ELSE [m EXCEPT !.heap = [i \in ObjIds |->
                             IF i = id \/ (m.heap[i].live /\ m.heap[i].owner = id)
                             THEN FreeObj ELSE m.heap[i]],
                 !.freed = @ \cup {id} \cup
                           {i \in ObjIds : m.heap[i].live /\ m.heap[i].owner = id}]

EVP_MD_CTX_destroy(m, ctx) == Release(m, ctx)

EVP_PKEY_CTX_free(m, ctx) == Release(m, ctx)

\* ------------------------------------------------------------------ buffers
L(op, n, h, g) == [op |-> op, n |-> n, h |-> h, g |-> g]

\* memcpy of k caller bytes behind the content t.
AppendBytes(t, k) ==
  IF k = 0 THEN t
  ELSE IF t = <<>> THEN <<L("msg", k, "-", "-")>>
  ELSE IF t[Len(t)].op \in {"msg", "cat"} THEN [t EXCEPT ![Len(t)].n = @ + k]
  ELSE Append(t, L("cat", k, "-", "-"))

\* ------------------------------------------------------------------ op_info
\* The session's Operation Context as the constructor leaves it (zeroed).
ZeroOpInfo ==
  [mechanism |-> "0", md_ctx |-> NULL, out_len |-> 0, buf_len |-> 0, buf |-> <<>>,
   sign |-> [rsa |-> FALSE, algorithm |-> "0", padding |-> 0, pss_md |-> "none",
             mgf1_md |-> "none", pss_slen |-> 0],
   verify |-> [pkey_ctx |-> NULL, padding |-> 0],
   encrypt |-> [algorithm |-> "0", padding |-> 0, oaep_md |-> "none",
                mgf1_md |-> "none", oaep_label |-> NULL, oaep_label_len |-> 0]]

ZeroMem == [heap |-> [i \in ObjIds |-> FreeObj], faults |-> {}, freed |-> {}]

\* What an entry point hands back: its status, the session and the memory.
Ret(rv, s, m) == [rv |-> rv, s |-> s, m |-> m]

\* A CK_MECHANISM: the identifier and the parameter block (has_param = pParameter
\* is not NULL).
Mech(mechanism, has_param, len, hashAlg, mgf, sLen) ==
  [mechanism |-> mechanism, has_param |-> has_param, ulParameterLen |-> len,
   hashAlg |-> hashAlg, mgf |-> mgf, sLen |-> sLen]

\* ------------------------------------------------------------------ sign init
\* First switch of sign_mechanism_init and verify_mechanism_init: the mechanisms
\* accepted, and the hash each implies ("none" = md stays NULL).
SignMechanisms ==
  SignNoHashMechs \cup HashedPkcsMechs \cup HashedPssMechs \cup HashedEcdsaMechs

mechanism_md(mechanism) ==
  CASE mechanism \in {"CKM_SHA1_RSA_PKCS", "CKM_SHA1_RSA_PKCS_PSS", "CKM_ECDSA_SHA1"}
         -> "sha1"
    [] mechanism = "CKM_ECDSA_SHA224" -> "sha224"
    [] mechanism \in {"CKM_SHA256_RSA_PKCS", "CKM_SHA256_RSA_PKCS_PSS",
                      "CKM_ECDSA_SHA256"} -> "sha256"
    [] mechanism \in {"CKM_SHA384_RSA_PKCS", "CKM_SHA384_RSA_PKCS_PSS",
                      "CKM_ECDSA_SHA384"} -> "sha384"
    [] mechanism \in {"CKM_SHA512_RSA_PKCS", "CKM_SHA512_RSA_PKCS_PSS",
                      "CKM_ECDSA_SHA512"} -> "sha512"
    [] OTHER -> "none"

\* Second switch: the case labels.
X509Case == {"CKM_RSA_X_509"}

PkcsCase ==
  {"CKM_RSA_PKCS", "CKM_MD5_RSA_PKCS", "CKM_SHA1_RSA_PKCS", "CKM_RIPEMD160_RSA_PKCS",
   "CKM_SHA256_RSA_PKCS", "CKM_SHA384_RSA_PKCS", "CKM_SHA512_RSA_PKCS"}

PssCase ==
  {"CKM_RSA_PKCS_PSS", "CKM_SHA1_RSA_PKCS_PSS", "CKM_SHA256_RSA_PKCS_PSS",
   "CKM_SHA384_RSA_PKCS_PSS", "CKM_SHA512_RSA_PKCS_PSS"}

\* Variant of PssParamsBad that forgets the length comparison.
PssParamsBad_NullOnly(mech) == ~mech.has_param

\* mech->pParameter == NULL || mech->ulParameterLen != sizeof(CK_RSA_PKCS_PSS_PARAMS)
PssParamsBad(mech) == ~mech.has_param \/ mech.ulParameterLen # PSS_PARAMS_SIZE

\* Variant of PssHashConflict that lets a conflicting hash through.
PssHashConflict_Never(md, pss_md) == FALSE

\* md && md != pss_md
PssHashConflict(md, pss_md) == md # "none" /\ md # pss_md

\* The PSS case of sign_mechanism_init's second switch, after the key check.
sign_pss_case(s, md, mech) ==
  IF PssParamsBad(mech) THEN [rv |-> CKR_MECHANISM_PARAM_INVALID, s |-> s]
  ELSE
    LET s1 == [s EXCEPT !.sign.padding = RSA_PKCS1_PSS_PADDING,
                        !.sign.pss_md = EVP_MD_by_mechanism(mech.hashAlg),
                        !.sign.mgf1_md = EVP_MD_by_mechanism(mech.mgf),
                        !.sign.pss_slen = mech.sLen]
    IN IF s1.sign.pss_md = "none" THEN [rv |-> CKR_ARGUMENTS_BAD, s |-> s1]
       ELSE IF s1.sign.mgf1_md = "none" THEN [rv |-> CKR_ARGUMENTS_BAD, s |-> s1]
       ELSE IF PssHashConflict(md, s1.sign.pss_md)
            THEN [rv |-> CKR_ARGUMENTS_BAD, s |-> s1]
       ELSE [rv |-> CKR_OK, s |-> s1]

\* Variant of sign_padding_switch whose default case accepts an RSA key.
sign_padding_switch_AnyKey(s, md, mech) ==
  CASE s.mechanism \in X509Case ->
         IF ~s.sign.rsa THEN [rv |-> CKR_KEY_TYPE_INCONSISTENT, s |-> s]
         ELSE [rv |-> CKR_OK, s |-> [s EXCEPT !.sign.padding = RSA_NO_PADDING]]
    [] s.mechanism \in PkcsCase ->
         IF ~s.sign.rsa THEN [rv |-> CKR_KEY_TYPE_INCONSISTENT, s |-> s]
         ELSE [rv |-> CKR_OK, s |-> [s EXCEPT !.sign.padding = RSA_PKCS1_PADDING]]
    [] s.mechanism \in PssCase ->
         IF ~s.sign.rsa THEN [rv |-> CKR_KEY_TYPE_INCONSISTENT, s |-> s]
         ELSE sign_pss_case(s, md, mech)
    [] OTHER -> [rv |-> CKR_OK, s |-> [s EXCEPT !.sign.padding = 0]]

\* The second switch of sign_mechanism_init: key family against mechanism, and
\* the padding scheme.
sign_padding_switch(s, md, mech) ==
  CASE s.mechanism \in X509Case ->
         IF ~s.sign.rsa THEN [rv |-> CKR_KEY_TYPE_INCONSISTENT, s |-> s]
         ELSE [rv |-> CKR_OK, s |-> [s EXCEPT !.sign.padding = RSA_NO_PADDING]]
    [] s.mechanism \in PkcsCase ->
         IF ~s.sign.rsa THEN [rv |-> CKR_KEY_TYPE_INCONSISTENT, s |-> s]
         ELSE [rv |-> CKR_OK, s |-> [s EXCEPT !.sign.padding = RSA_PKCS1_PADDING]]
    [] s.mechanism \in PssCase ->
         IF ~s.sign.rsa THEN [rv |-> CKR_KEY_TYPE_INCONSISTENT, s |-> s]
         ELSE sign_pss_case(s, md, mech)
    [] OTHER ->
         IF s.sign.rsa THEN [rv |-> CKR_KEY_TYPE_INCONSISTENT, s |-> s]
         ELSE [rv |-> CKR_OK, s |-> [s EXCEPT !.sign.padding = 0]]

\* if(md) { EVP_MD_CTX_create; EVP_DigestInit_ex } else md_ctx = NULL.
\* fail names the library call that fails in this run ("none": all succeed).
sign_open_digest(s, m, md, fail) ==
  IF md # "none" THEN
    LET id == NewId(m, fail # "EVP_MD_CTX_create")
        s1 == [s EXCEPT !.md_ctx = id]
        m1 == Alloc(m, id, "md_ctx", NULL, md)
    IN IF id = NULL THEN Ret(CKR_FUNCTION_FAILED, s1, m1)
       ELSE IF fail = "EVP_DigestInit_ex" THEN Ret(CKR_FUNCTION_FAILED, s1, m1)
       ELSE Ret(CKR_OK, [s1 EXCEPT !.buf_len = 0, !.buf = <<>>], m1)
  ELSE Ret(CKR_OK, [s EXCEPT !.md_ctx = NULL, !.buf_len = 0, !.buf = <<>>], m)

sign_mechanism_init(s, m, key, mech, fail) ==
  IF key = NoKey THEN Ret(CKR_KEY_TYPE_INCONSISTENT, s, m)
  ELSE
    LET s1 == [s EXCEPT !.md_ctx = NULL, !.mechanism = mech.mechanism]
        md == mechanism_md(mech.mechanism)
    IN IF mech.mechanism \notin SignMechanisms THEN Ret(CKR_MECHANISM_INVALID, s1, m)
       ELSE
         LET s2 == [s1 EXCEPT !.out_len = do_get_signature_size(key),
                              !.sign.rsa = EVP_PKEY_get0_RSA(key),
                              !.sign.algorithm = do_get_key_algorithm(key)]
             sw == sign_padding_switch(s2, md, mech)
         IN IF sw.rv # CKR_OK THEN Ret(sw.rv, sw.s, m)
            ELSE sign_open_digest(sw.s, m, md, fail)

\* ------------------------------------------------------------------ verify init
\* Variant of verify_padding_switch whose default case accepts an RSA key.
verify_padding_switch_AnyKey(s, rsa, mech) ==
  CASE s.mechanism \in X509Case ->
         IF ~rsa THEN [rv |-> CKR_KEY_TYPE_INCONSISTENT, s |-> s]
         ELSE [rv |-> CKR_OK, s |-> [s EXCEPT !.verify.padding = RSA_NO_PADDING]]
    [] s.mechanism \in PkcsCase ->
         IF ~rsa THEN [rv |-> CKR_KEY_TYPE_INCONSISTENT, s |-> s]
         ELSE [rv |-> CKR_OK, s |-> [s EXCEPT !.verify.padding = RSA_PKCS1_PADDING]]
    [] s.mechanism \in PssCase ->
         IF ~rsa THEN [rv |-> CKR_KEY_TYPE_INCONSISTENT, s |-> s]
         ELSE IF PssParamsBad(mech) THEN [rv |-> CKR_MECHANISM_PARAM_INVALID, s |-> s]
         ELSE [rv |-> CKR_OK, s |-> [s EXCEPT !.verify.padding = RSA_PKCS1_PSS_PADDING]]
    [] OTHER -> [rv |-> CKR_OK, s |-> [s EXCEPT !.verify.padding = 0]]

\* The second switch of verify_mechanism_init.  For PSS the parameter block is
\* only size-checked here; its identifiers are checked after the contexts exist.
verify_padding_switch(s, rsa, mech) ==
  CASE s.mechanism \in X509Case ->
         IF ~rsa THEN [rv |-> CKR_KEY_TYPE_INCONSISTENT, s |-> s]
         ELSE [rv |-> CKR_OK, s |-> [s EXCEPT !.verify.padding = RSA_NO_PADDING]]
    [] s.mechanism \in PkcsCase ->
         IF ~rsa THEN [rv |-> CKR_KEY_TYPE_INCONSISTENT, s |-> s]
         ELSE [rv |-> CKR_OK, s |-> [s EXCEPT !.verify.padding = RSA_PKCS1_PADDING]]
    [] s.mechanism \in PssCase ->
         IF ~rsa THEN [rv |-> CKR_KEY_TYPE_INCONSISTENT, s |-> s]
         ELSE IF PssParamsBad(mech) THEN [rv |-> CKR_MECHANISM_PARAM_INVALID, s |-> s]
         ELSE [rv |-> CKR_OK, s |-> [s EXCEPT !.verify.padding = RSA_PKCS1_PSS_PADDING]]
    [] OTHER ->
         IF rsa THEN [rv |-> CKR_KEY_TYPE_INCONSISTENT, s |-> s]
         ELSE [rv |-> CKR_OK, s |-> [s EXCEPT !.verify.padding = 0]]

\* EVP_DigestVerifyInit(md_ctx, &pkey_ctx, md, NULL, key): allocates the
\* verification context the hash context owns and publishes it through
\* pkey_ctx.  It can fail before allocating, after allocating, or after
\* publishing.
EVP_DigestVerifyInit(s, m, fail) ==
  LET id == NewId(m, fail # "EVP_DigestVerifyInit")
      m1 == Alloc(m, id, "pkey_ctx", s.md_ctx, "none")
  IN IF id = NULL THEN [ok |-> FALSE, s |-> s, m |-> m]
     ELSE IF fail = "EVP_DigestVerifyInit:owned" THEN [ok |-> FALSE, s |-> s, m |-> m1]
     ELSE [ok |-> fail # "EVP_DigestVerifyInit:published",
           s |-> [s EXCEPT !.verify.pkey_ctx = id], m |-> m1]

\* Variant of verify_open_context that opens the combined context only for a
\* selected hash.
verify_open_context_HashOnly(s, m, md, is_eddsa, fail) ==
  IF md # "none" THEN
    LET id == NewId(m, fail # "EVP_MD_CTX_create")
        s1 == [s EXCEPT !.md_ctx = id]
        m1 == Alloc(m, id, "md_ctx", NULL, md)
        dv == EVP_DigestVerifyInit(s1, m1, fail)
    IN IF id = NULL THEN Ret(CKR_FUNCTION_FAILED, s1, m1)
       ELSE IF ~dv.ok THEN Ret(CKR_FUNCTION_FAILED, dv.s, dv.m)
       ELSE Ret(CKR_OK, dv.s, dv.m)
  ELSE
    LET id == NewId(m, fail # "EVP_PKEY_CTX_new")
        s1 == [s EXCEPT !.md_ctx = NULL, !.verify.pkey_ctx = id]
        m1 == Alloc(m, id, "pkey_ctx", NULL, "none")
    IN IF id = NULL THEN Ret(CKR_FUNCTION_FAILED, s1, m1)
       ELSE IF fail = "EVP_PKEY_verify_init" THEN Ret(CKR_FUNCTION_FAILED, s1, m1)
       ELSE Ret(CKR_OK, s1, m1)

\* if(md || is_eddsa) { combined context } else { raw verification context }
verify_open_context(s, m, md, is_eddsa, fail) ==
  IF md # "none" \/ is_eddsa THEN
    LET id == NewId(m, fail # "EVP_MD_CTX_create")
        s1 == [s EXCEPT !.md_ctx = id]
        m1 == Alloc(m, id, "md_ctx", NULL, md)
        dv == EVP_DigestVerifyInit(s1, m1, fail)
    IN IF id = NULL THEN Ret(CKR_FUNCTION_FAILED, s1, m1)
       ELSE IF ~dv.ok THEN Ret(CKR_FUNCTION_FAILED, dv.s, dv.m)
       ELSE Ret(CKR_OK, dv.s, dv.m)
  ELSE
    LET id == NewId(m, fail # "EVP_PKEY_CTX_new")
        s1 == [s EXCEPT !.md_ctx = NULL, !.verify.pkey_ctx = id]
        m1 == Alloc(m, id, "pkey_ctx", NULL, "none")
    IN IF id = NULL THEN Ret(CKR_FUNCTION_FAILED, s1, m1)
       ELSE IF fail = "EVP_PKEY_verify_init" THEN Ret(CKR_FUNCTION_FAILED, s1, m1)
       ELSE Ret(CKR_OK, s1, m1)

\* if (pss) { ... }: the identifier checks and the three setters.
verify_pss_params(md, mech, fail) ==
  IF EVP_MD_by_mechanism(mech.hashAlg) = "none" THEN CKR_ARGUMENTS_BAD
  ELSE IF EVP_MD_by_mechanism(mech.mgf) = "none" THEN CKR_ARGUMENTS_BAD
  ELSE IF PssHashConflict(md, EVP_MD_by_mechanism(mech.hashAlg)) THEN CKR_ARGUMENTS_BAD
  ELSE IF fail = "EVP_PKEY_CTX_set_signature_md" THEN CKR_FUNCTION_FAILED
  ELSE IF fail = "EVP_PKEY_CTX_set_rsa_mgf1_md" THEN CKR_FUNCTION_FAILED
  ELSE IF fail = "EVP_PKEY_CTX_set_rsa_pss_saltlen" THEN CKR_FUNCTION_FAILED
  ELSE CKR_OK

\* if (session->op_info.op.verify.padding) { ... }
verify_set_padding(s, md, pss, mech, fail) ==
  IF s.verify.padding # 0 THEN
    IF fail = "EVP_PKEY_CTX_set_rsa_padding" THEN CKR_FUNCTION_FAILED
    ELSE IF pss THEN verify_pss_params(md, mech, fail)
    ELSE CKR_OK
  ELSE CKR_OK

verify_mechanism_init(s, m, key, mech, fail) ==
  IF key = NoKey THEN Ret(CKR_KEY_TYPE_INCONSISTENT, s, m)
  ELSE
    LET s1 == [s EXCEPT !.md_ctx = NULL, !.mechanism = mech.mechanism,
                        !.verify.pkey_ctx = NULL]
        md == mechanism_md(mech.mechanism)
        is_eddsa == mech.mechanism = "CKM_EDDSA"
    IN IF mech.mechanism \notin SignMechanisms THEN Ret(CKR_MECHANISM_INVALID, s1, m)
       ELSE
         LET rsa == EVP_PKEY_get0_RSA(key)
             sw == verify_padding_switch(s1, rsa, mech)
             pss == sw.rv = CKR_OK /\ s1.mechanism \in PssCase
             oc == verify_open_context(sw.s, m, md, is_eddsa, fail)
             pd == verify_set_padding(oc.s, md, pss, mech, fail)
         IN IF sw.rv # CKR_OK THEN Ret(sw.rv, sw.s, m)
            ELSE IF oc.rv # CKR_OK THEN oc
            ELSE IF pd # CKR_OK THEN Ret(pd, oc.s, oc.m)
            ELSE Ret(CKR_OK,
                     [oc.s EXCEPT !.out_len = 0, !.buf_len = 0, !.buf = <<>>], oc.m)

\* ------------------------------------------------------------------ cleanup
sign_mechanism_cleanup(s, m) ==
  LET m1 == IF s.md_ctx # NULL THEN EVP_MD_CTX_destroy(m, s.md_ctx) ELSE m
  IN Ret(CKR_OK, [s EXCEPT !.md_ctx = NULL, !.buf_len = 0, !.buf = <<>>], m1)

\* Variant of verify_mechanism_cleanup that frees pkey_ctx whether or not the
\* hash context owned it.
verify_mechanism_cleanup_FreeBoth(s, m) ==
  LET m1 == IF s.md_ctx # NULL THEN EVP_MD_CTX_destroy(m, s.md_ctx) ELSE m
      m2 == IF s.verify.pkey_ctx # NULL THEN EVP_PKEY_CTX_free(m1, s.verify.pkey_ctx)
            ELSE m1
  IN Ret(CKR_OK,
         [s EXCEPT !.md_ctx = NULL, !.verify.pkey_ctx = NULL, !.buf_len = 0,
                   !.buf = <<>>], m2)

verify_mechanism_cleanup(s, m) ==
  LET m1 == IF s.md_ctx # NULL THEN EVP_MD_CTX_destroy(m, s.md_ctx)
            ELSE IF s.verify.pkey_ctx # NULL THEN EVP_PKEY_CTX_free(m, s.verify.pkey_ctx)
            ELSE m
  IN Ret(CKR_OK,
         [s EXCEPT !.md_ctx = NULL, !.verify.pkey_ctx = NULL, !.buf_len = 0,
                   !.buf = <<>>], m1)

\* ------------------------------------------------------------------ update
\* CK_ULONG arithmetic.
UAdd(a, b) == (a + b) % ULONG_MOD

\* session->op_info.buf_len + in_len > sizeof(session->op_info.buf)
UpdateTooLong(buf_len, in_len) == UAdd(buf_len, in_len) > BUF_SIZE

\* memcpy(buf + buf_len, in, in_len); buf_len += in_len.  A copy that runs
\* past the end of buf is an out-of-bounds write.
update_append(s, m, in_len) ==
  IF s.buf_len + in_len > BUF_SIZE
  THEN Ret(CKR_OK,
           [s EXCEPT !.buf = <<L("overrun", in_len, "-", "-")>>,
                     !.buf_len = UAdd(s.buf_len, in_len)],
           [m EXCEPT !.faults = @ \cup {"oob_write"}])
  ELSE Ret(CKR_OK,
           [s EXCEPT !.buf = AppendBytes(s.buf, in_len),
                     !.buf_len = UAdd(s.buf_len, in_len)], m)

\* Variant of digest_mechanism_update that feeds every open context.
digest_mechanism_update_AnyContext(s, m, in_len, fail) ==
  IF s.md_ctx # NULL THEN
    IF fail = "EVP_DigestUpdate" THEN Ret(CKR_FUNCTION_FAILED, s, m)
    ELSE Ret(CKR_OK, s, [m EXCEPT !.heap[s.md_ctx].fed = @ + in_len])
  ELSE
    IF UpdateTooLong(s.buf_len, in_len) THEN Ret(CKR_DATA_LEN_RANGE, s, m)
    ELSE update_append(s, m, in_len)

digest_mechanism_update(s, m, in_len, fail) ==
  IF s.md_ctx # NULL /\ s.mechanism # "CKM_EDDSA" THEN
    IF fail = "EVP_DigestUpdate" THEN Ret(CKR_FUNCTION_FAILED, s, m)
    ELSE Ret(CKR_OK, s, [m EXCEPT !.heap[s.md_ctx].fed = @ + in_len])
  ELSE
    IF UpdateTooLong(s.buf_len, in_len) THEN Ret(CKR_DATA_LEN_RANGE, s, m)
    ELSE update_append(s, m, in_len)

\* ------------------------------------------------------------------ sign final
\* Length of the DigestInfo envelope prepare_rsa_signature puts around a digest.
DigestInfoOverhead(md) == IF md = "sha1" THEN 15 ELSE 19

\* if(session->op_info.md_ctx) { EVP_DigestFinal_ex; prepare_rsa_signature;
\* buf_len = cbLength }.  Finalising a context a second time is outside the
\* library's contract: the call fails or hands back bytes that are not the
\* digest of the message (env.refinal).
sign_final_digest(s, m, env) ==
  IF s.md_ctx = NULL THEN Ret(CKR_OK, s, m)
  ELSE
    LET ctx == m.heap[s.md_ctx]
        m1 == [m EXCEPT !.heap[s.md_ctx].fin = TRUE]
        dg == IF ctx.fin THEN <<L("digest_undef", 0, ctx.md, "-")>>
              ELSE <<L("digest", ctx.fed, ctx.md, "-")>>
        cb == EVP_MD_size(ctx.md)
    IN IF env.fail = "EVP_DigestFinal_ex" THEN Ret(CKR_FUNCTION_FAILED, s, m)
       ELSE IF ctx.fin /\ env.refinal = "fails" THEN Ret(CKR_FUNCTION_FAILED, s, m)
       ELSE IF s.sign.padding = RSA_PKCS1_PADDING THEN
         IF env.fail = "prepare_rsa_signature" THEN Ret(CKR_FUNCTION_FAILED, s, m1)
         ELSE Ret(CKR_OK,
                  [s EXCEPT !.buf = Append(dg, L("x509_sig", cb + DigestInfoOverhead(ctx.md),
                                                 ctx.md, "-")),
                            !.buf_len = cb + DigestInfoOverhead(ctx.md)], m1)
       ELSE Ret(CKR_OK, [s EXCEPT !.buf = dg, !.buf_len = cb], m1)

\* RSA_padding_add_PKCS1_type_1(to, tlen, from, flen) > 0
Type1Fits(tlen, flen) == flen <= tlen - 11

\* Variant of NoPaddingFits that lets a shorter input through.
NoPaddingFits_AtMost(tlen, flen) == flen <= tlen

\* RSA_padding_add_none(to, tlen, from, flen) > 0
NoPaddingFits(tlen, flen) == flen = tlen

\* RSA_padding_add_PKCS1_PSS_mgf1(rsa, EM, mHash, Hash, mgf1Hash, sLen) > 0
PssFits(emLen, md, sLen) == EVP_MD_size(md) + sLen + 2 <= emLen

\* switch(session->op_info.op.sign.padding): pad into the local buf, then copy
\* padlen bytes back over the accumulator.
sign_final_pad(s, env) ==
  LET padlen == s.out_len
  IN CASE s.sign.padding = RSA_PKCS1_PADDING ->
            IF env.fail = "RSA_padding_add" \/ ~Type1Fits(padlen, s.buf_len)
            THEN [rv |-> CKR_FUNCTION_FAILED, s |-> s]
            ELSE [rv |-> CKR_OK,
                  s |-> [s EXCEPT !.buf = Append(s.buf, L("type1", padlen, "-", "-")),
                                  !.buf_len = padlen]]
       [] s.sign.padding = RSA_PKCS1_PSS_PADDING ->
            IF env.fail = "RSA_padding_add" \/ ~PssFits(padlen, s.sign.pss_md, s.sign.pss_slen)
            THEN [rv |-> CKR_FUNCTION_FAILED, s |-> s]
            ELSE [rv |-> CKR_OK,
                  s |-> [s EXCEPT !.buf = Append(s.buf, L("pss", s.sign.pss_slen,
                                                          s.sign.pss_md, s.sign.mgf1_md)),
                                  !.buf_len = padlen]]
       [] s.sign.padding = RSA_NO_PADDING ->
            IF env.fail = "RSA_padding_add" \/ ~NoPaddingFits(padlen, s.buf_len)
            THEN [rv |-> CKR_FUNCTION_FAILED, s |-> s]
            ELSE [rv |-> CKR_OK, s |-> [s EXCEPT !.buf_len = padlen]]
       [] OTHER -> [rv |-> CKR_OK, s |-> s]

\* Status of a failed hardware call.
yrc_to_rv(rcc) ==
  CASE rcc = YKPIV_OK -> CKR_OK
    [] rcc = YKPIV_AUTHENTICATION_ERROR -> CKR_USER_NOT_LOGGED_IN
    [] OTHER -> CKR_DEVICE_ERROR

\* Variant of StripsDER that strips for no algorithm.
StripsDER_None(algorithm) == FALSE

\* The algorithms whose signature sign_mechanism_final strips of its DER form.
StripsDER(algorithm) == algorithm \in {"YKPIV_ALGO_ECCP256", "YKPIV_ALGO_ECCP384"}

\* Length of the signature the hardware returns: the modulus size, or an
\* ECDSA DER SEQUENCE of two integers.
HwSigLen(s) == IF StripsDER(s.sign.algorithm) THEN s.out_len + 8 ELSE s.out_len

\* if(siglen > *sig_len) return CKR_BUFFER_TOO_SMALL
SigTooLong(siglen, cap) == siglen > cap

\* What a final hands back besides Ret: the caller's buffer (written or not)
\* and length word, and the hardware and unpadding calls it made.
Fin(rv, s, m, written, out, out_len, hw_calls, unpads) ==
  [rv |-> rv, s |-> s, m |-> m, written |-> written, out |-> out,
   out_len |-> out_len, hw_calls |-> hw_calls, unpads |-> unpads]

\* Variant of sign_final_hw that reports the required length in *sig_len when
\* the caller's buffer is too small.
sign_final_hw_ReportsLen(s, m, cap, env) ==
  LET signed == Append(s.buf, L("sign", HwSigLen(s), s.sign.algorithm, "-"))
      strip == StripsDER(s.sign.algorithm)
      sigbuf == IF strip THEN Append(signed, L("strip_der", s.out_len, "-", "-"))
                ELSE signed
      siglen == IF strip THEN s.out_len ELSE HwSigLen(s)
  IN IF env.hw # YKPIV_OK THEN Fin(yrc_to_rv(env.hw), s, m, FALSE, <<>>, cap, 1, 0)
     ELSE IF strip /\ ~env.strip_ok
          THEN Fin(CKR_FUNCTION_FAILED, s, m, FALSE, <<>>, cap, 1, 0)
     ELSE IF SigTooLong(siglen, cap)
          THEN Fin(CKR_BUFFER_TOO_SMALL, s, m, FALSE, <<>>, siglen, 1, 0)
     ELSE Fin(CKR_OK, s, m, TRUE, sigbuf, siglen, 1, 0)

\* From "Sign with PIV" to the end of sign_mechanism_final.
sign_final_hw(s, m, cap, env) ==
  LET signed == Append(s.buf, L("sign", HwSigLen(s), s.sign.algorithm, "-"))
      strip == StripsDER(s.sign.algorithm)
      sigbuf == IF strip THEN Append(signed, L("strip_der", s.out_len, "-", "-"))
                ELSE signed
      siglen == IF strip THEN s.out_len ELSE HwSigLen(s)
  IN IF env.hw # YKPIV_OK THEN Fin(yrc_to_rv(env.hw), s, m, FALSE, <<>>, cap, 1, 0)
     ELSE IF strip /\ ~env.strip_ok
          THEN Fin(CKR_FUNCTION_FAILED, s, m, FALSE, <<>>, cap, 1, 0)
     ELSE IF SigTooLong(siglen, cap)
          THEN Fin(CKR_BUFFER_TOO_SMALL, s, m, FALSE, <<>>, cap, 1, 0)
     ELSE Fin(CKR_OK, s, m, TRUE, sigbuf, siglen, 1, 0)

\* Variant of sign_mechanism_final that goes on to the hardware after a
\* padding failure.
sign_mechanism_final_IgnoresPad(s, m, cap, env) ==
  LET dg == sign_final_digest(s, m, env)
      pd == sign_final_pad(dg.s, env)
  IN IF dg.rv # CKR_OK THEN Fin(dg.rv, dg.s, dg.m, FALSE, <<>>, cap, 0, 0)
     ELSE sign_final_hw(pd.s, dg.m, cap, env)

sign_mechanism_final(s, m, cap, env) ==
  LET dg == sign_final_digest(s, m, env)
      pd == sign_final_pad(dg.s, env)
  IN IF dg.rv # CKR_OK THEN Fin(dg.rv, dg.s, dg.m, FALSE, <<>>, cap, 0, 0)
     ELSE IF pd.rv # CKR_OK THEN Fin(pd.rv, pd.s, dg.m, FALSE, <<>>, cap, 0, 0)
     ELSE sign_final_hw(pd.s, dg.m, cap, env)

\* ------------------------------------------------------------------ verify final
\* Variant of verify_rc_to_rv that reports an error of the primitive as a mismatch.
verify_rc_to_rv_Flat(rc) == IF rc <= 0 THEN CKR_SIGNATURE_INVALID ELSE CKR_OK

\* return rc < 0 ? CKR_FUNCTION_FAILED : CKR_SIGNATURE_INVALID, under if(rc <= 0)
verify_rc_to_rv(rc) ==
  IF rc <= 0 THEN (IF rc < 0 THEN CKR_FUNCTION_FAILED ELSE CKR_SIGNATURE_INVALID)
  ELSE CKR_OK

\* Variant of DerTooLong that lets every length through.
DerTooLong_Never(sig_len) == FALSE

\* if(sig_len > sizeof(der))
DerTooLong(sig_len) == sig_len > 1024

\* A library call on a context: on one that is not live it is a use after
\* release.
Use(m, ctx) ==
  IF ctx # NULL /\ m.heap[ctx].live THEN m
  ELSE [m EXCEPT !.faults = @ \cup {"bad_ctx"}]

\* What verify_mechanism_final hands back: prim = the verify primitive it
\* delegated to ("none" when it returned before), rc = what that primitive
\* reported, copied = bytes copied into the DER scratch buffer.
VFin(rv, s, m, prim, rc, copied) ==
  [rv |-> rv, s |-> s, m |-> m, prim |-> prim, rc |-> rc, copied |-> copied]

\* do_apply_DER_encoding_to_ECSIG(sig, &sig_len, sizeof(der))
do_apply_DER_encoding_to_ECSIG(ok) == IF ok THEN CKR_OK ELSE CKR_FUNCTION_FAILED

\* The tail of verify_mechanism_final: combined or raw primitive.
verify_final_delegate(s, m, env, copied) ==
  IF s.md_ctx # NULL
  THEN VFin(verify_rc_to_rv(env.rc), s, Use(m, s.md_ctx), "EVP_DigestVerifyFinal",
            env.rc, copied)
  ELSE VFin(verify_rc_to_rv(env.rc), s, Use(m, s.verify.pkey_ctx), "EVP_PKEY_verify",
            env.rc, copied)

verify_mechanism_final(s, m, sig_len, env) ==
  IF s.mechanism = "CKM_EDDSA"
  THEN VFin(verify_rc_to_rv(env.rc), s, Use(m, s.md_ctx), "EVP_DigestVerify", env.rc, 0)
  ELSE IF s.verify.padding = 0 THEN
    IF DerTooLong(sig_len) THEN VFin(CKR_FUNCTION_FAILED, s, m, "none", 0, 0)
    ELSE IF do_apply_DER_encoding_to_ECSIG(env.der_ok) # CKR_OK
         THEN VFin(do_apply_DER_encoding_to_ECSIG(env.der_ok), s, m, "none", 0, sig_len)
    ELSE verify_final_delegate(s, m, env, sig_len)
  ELSE verify_final_delegate(s, m, env, 0)

\* ------------------------------------------------------------------ digest
digest_mechanism_init(s, m, mech, fail) ==
  LET s1 == [s EXCEPT !.mechanism = mech.mechanism]
      md == EVP_MD_by_mechanism(mech.mechanism)
      id == NewId(m, fail # "EVP_MD_CTX_create")
      s2 == [s1 EXCEPT !.md_ctx = id]
      m2 == Alloc(m, id, "md_ctx", NULL, md)
  IN IF mech.mechanism \notin DigestMechs THEN Ret(CKR_MECHANISM_INVALID, s1, m)
     ELSE IF id = NULL THEN Ret(CKR_FUNCTION_FAILED, s2, m2)
     ELSE IF fail = "EVP_DigestInit_ex"
          THEN Ret(CKR_FUNCTION_FAILED, [s2 EXCEPT !.md_ctx = NULL],
                   EVP_MD_CTX_destroy(m2, id))
     ELSE Ret(CKR_OK,
              [s2 EXCEPT !.out_len = EVP_MD_size(md), !.buf_len = 0, !.buf = <<>>], m2)

\* Variant of digest_mechanism_final that leaves md_ctx pointing at the
\* released context.
digest_mechanism_final_KeepsPointer(s, m, cap, fail) ==
  LET m0 == Use(m, s.md_ctx)
      ctx == IF s.md_ctx # NULL THEN m.heap[s.md_ctx] ELSE FreeObj
      ok == fail # "EVP_DigestFinal_ex" /\ s.md_ctx # NULL
      m1 == EVP_MD_CTX_destroy(m0, s.md_ctx)
  IN IF ~ok THEN Fin(CKR_FUNCTION_FAILED, s, m1, FALSE, <<>>, cap, 0, 0)
     ELSE Fin(CKR_OK, s, m1, TRUE, <<L("digest", ctx.fed, ctx.md, "-")>>,
              EVP_MD_size(ctx.md), 0, 0)

\* EVP_DigestFinal_ex writes the whole digest at pDigest, whatever capacity
\* the caller declared; written_len is what it wrote.
digest_mechanism_final(s, m, cap, fail) ==
  LET m0 == Use(m, s.md_ctx)
      ctx == IF s.md_ctx # NULL THEN m.heap[s.md_ctx] ELSE FreeObj
      ok == fail # "EVP_DigestFinal_ex" /\ s.md_ctx # NULL
      m1 == EVP_MD_CTX_destroy(m0, s.md_ctx)
      s1 == [s EXCEPT !.md_ctx = NULL]
  IN IF ~ok THEN Fin(CKR_FUNCTION_FAILED, s1, m1, FALSE, <<>>, cap, 0, 0)
     ELSE Fin(CKR_OK, s1, m1, TRUE, <<L("digest", ctx.fed, ctx.md, "-")>>,
              EVP_MD_size(ctx.md), 0, 0)

\* ------------------------------------------------------------------ decrypt
\* A CK_MECHANISM carrying CK_RSA_PKCS_OAEP_PARAMS (has_data = pSourceData is
\* not NULL).
OaepMech(mechanism, has_param, len, hashAlg, mgf, source, has_data, data_len) ==
  [mechanism |-> mechanism, has_param |-> has_param, ulParameterLen |-> len,
   hashAlg |-> hashAlg, mgf |-> mgf, source |-> source, has_data |-> has_data,
   ulSourceDataLen |-> data_len]

\* mech->pParameter == NULL || mech->ulParameterLen != sizeof(CK_RSA_PKCS_OAEP_PARAMS)
OaepParamsBad(mech) == ~mech.has_param \/ mech.ulParameterLen # OAEP_PARAMS_SIZE

\* The CKM_RSA_PKCS_OAEP case of decrypt_mechanism_init.
decrypt_oaep_case(s, m, mech, fail) ==
  LET s1 == [s EXCEPT !.encrypt.padding = RSA_PKCS1_OAEP_PADDING]
      s2 == [s1 EXCEPT !.encrypt.oaep_md = EVP_MD_by_mechanism(mech.hashAlg),
                       !.encrypt.mgf1_md = EVP_MD_by_mechanism(mech.mgf)]
      id == NewId(m, fail # "malloc")
      m3 == Alloc(m, id, "label", NULL, "none")
  IN IF OaepParamsBad(mech) THEN Ret(CKR_MECHANISM_PARAM_INVALID, s1, m)
     ELSE IF mech.source = "CKZ_DATA_SPECIFIED" /\ mech.has_data THEN
       IF id = NULL THEN Ret(CKR_HOST_MEMORY, [s2 EXCEPT !.encrypt.oaep_label = NULL], m)
       ELSE Ret(CKR_OK,
                [s2 EXCEPT !.encrypt.oaep_label = id,
                           !.encrypt.oaep_label_len = mech.ulSourceDataLen], m3)
     ELSE Ret(CKR_OK, s2, m)

decrypt_mechanism_init(s, m, key, mech, fail) ==
  IF do_get_key_type(key) # "CKK_RSA" THEN Ret(CKR_KEY_TYPE_INCONSISTENT, s, m)
  ELSE
    LET s1 == [s EXCEPT !.mechanism = mech.mechanism,
                        !.encrypt.algorithm = do_get_key_algorithm(key),
                        !.encrypt.oaep_label = NULL,
                        !.encrypt.oaep_label_len = 0]
    IN CASE mech.mechanism = "CKM_RSA_X_509" ->
              Ret(CKR_OK, [s1 EXCEPT !.encrypt.padding = RSA_NO_PADDING], m)
         [] mech.mechanism = "CKM_RSA_PKCS" ->
              Ret(CKR_OK, [s1 EXCEPT !.encrypt.padding = RSA_PKCS1_PADDING], m)
         [] mech.mechanism = "CKM_RSA_PKCS_OAEP" -> decrypt_oaep_case(s1, m, mech, fail)
         [] OTHER -> Ret(CKR_MECHANISM_INVALID, s1, m)

\* Variant of decipher_rv that reports every hardware failure as DeviceError.
decipher_rv_Flat(piv_rv) == CKR_DEVICE_ERROR

\* if (piv_rv != YKPIV_OK) { ... } of decrypt_mechanism_final
decipher_rv(piv_rv) ==
  IF piv_rv = YKPIV_AUTHENTICATION_ERROR THEN CKR_USER_NOT_LOGGED_IN
  ELSE CKR_DEVICE_ERROR

\* Variant of DataTooLong that compares with the scratch buffer instead of
\* the caller's capacity.
DataTooLong_Scratch(cb_len, cap) == cb_len > BUF_SIZE

\* (CK_ULONG)cb_len > *data_len
DataTooLong(cb_len, cap) == cb_len > cap

\* free(oaep_label); oaep_label = NULL on the success path.
decrypt_release_label(s, m) ==
  [s |-> [s EXCEPT !.encrypt.oaep_label = NULL], m |-> Release(m, s.encrypt.oaep_label)]

\* decrypt_mechanism_final after the hardware returned YKPIV_OK: the
\* deciphered block has replaced the ciphertext in the accumulator (the call
\* is given buf as input and as output); env.cb_len is what the padding check
\* returns.
decrypt_final_unpad(s, m, cap, key_len, env) ==
  LET dec_len == key_len \div 8
      s1 == [s EXCEPT !.buf = Append(s.buf, L("decipher", dec_len, s.encrypt.algorithm, "-"))]
      known == s.encrypt.padding \in
                 {RSA_PKCS1_PADDING, RSA_PKCS1_OAEP_PADDING, RSA_NO_PADDING}
      unpads == IF s.encrypt.padding \in {RSA_PKCS1_PADDING, RSA_PKCS1_OAEP_PADDING}
                THEN 1 ELSE 0
      cb_len == IF s.encrypt.padding = RSA_NO_PADDING THEN dec_len ELSE env.cb_len
      dec == IF s.encrypt.padding = RSA_PKCS1_PADDING
               THEN Append(s1.buf, L("unpad_type2", cb_len, "-", "-"))
             ELSE IF s.encrypt.padding = RSA_PKCS1_OAEP_PADDING
               THEN Append(s1.buf, L("unpad_oaep", cb_len, s.encrypt.oaep_md,
                                     s.encrypt.mgf1_md))
             ELSE s1.buf
      rl == decrypt_release_label(s1, m)
  IN IF ~known THEN Fin(CKR_FUNCTION_FAILED, s1, m, FALSE, <<>>, cap, 1, 0)
     ELSE IF cb_len <= 0 THEN Fin(CKR_FUNCTION_FAILED, s1, m, FALSE, <<>>, 0, 1, unpads)
     ELSE IF DataTooLong(cb_len, cap)
          THEN Fin(CKR_BUFFER_TOO_SMALL, s1, m, FALSE, <<>>, 0, 1, unpads)
     ELSE Fin(CKR_OK, rl.s, rl.m, TRUE, dec, cb_len, 1, unpads)

decrypt_mechanism_final(s, m, cap, key_len, env) ==
  IF env.hw # YKPIV_OK THEN Fin(decipher_rv(env.hw), s, m, FALSE, <<>>, cap, 1, 0)
  ELSE decrypt_final_unpad(s, m, cap, key_len, env)

\* ------------------------------------------------------------------ state
VARIABLES
  op_info,   \* session->op_info
  mem,       \* the objects the library and malloc hand out, and what went wrong with them
  caller,    \* the token-interface layer: the operation in flight and its call counts
  call,      \* the last entry-point call: its arguments, status and outputs
  args       \* the arguments of an init call under study (InitSpec)

vars == <<op_info, mem, caller, call, args>>

NoCall ==
  [name |-> "-", rv |-> "-", in_len |-> 0, cap |-> 0, hw |-> "-", rc |-> 0,
   prim |-> "none", written |-> FALSE, out |-> <<>>, out_len |-> 0, hw_calls |-> 0,
   unpads |-> 0, copied |-> 0, fail |-> "-", strip |-> "-", cb_len |-> 0, queries |-> 0]

Idle == [kind |-> "idle", ended |-> FALSE, ops |-> 0, updates |-> 0, finals |-> 0]

NoArgs == [key |-> NoKey, mech |-> Mech("0", FALSE, 0, "0", "0", 0), fail |-> "none"]

Init ==
  /\ op_info = ZeroOpInfo
  /\ mem = ZeroMem
  /\ caller = Idle
  /\ call = NoCall
  /\ args = NoArgs

\* ------------------------------------------------------------------ inputs
\* Mechanisms and parameter blocks the caller draws from in Spec.
CallMechs ==
  {"CKM_RSA_X_509", "CKM_RSA_PKCS", "CKM_ECDSA", "CKM_EDDSA", "CKM_SHA256_RSA_PKCS",
   "CKM_SHA256_RSA_PKCS_PSS", "CKM_ECDSA_SHA256", "CKM_MD5_RSA_PKCS"}

NoParam(mechanism) == Mech(mechanism, FALSE, 0, "0", "0", 0)

CallPssParams(mechanism) ==
  {NoParam(mechanism),
   Mech(mechanism, TRUE, PSS_PARAMS_SIZE, "CKM_SHA256", "CKG_MGF1_SHA256", 32),
   Mech(mechanism, TRUE, PSS_PARAMS_SIZE, "CKM_SHA_1", "CKG_MGF1_SHA1", 20),
   Mech(mechanism, TRUE, PSS_PARAMS_SIZE, "CKM_SHA256", "CKG_MGF1_SHA256", 254)}

CallMechanisms ==
  UNION {IF mechanism \in PssCase THEN CallPssParams(mechanism)
         ELSE {NoParam(mechanism)} : mechanism \in CallMechs}

CallKeys == {NoKey, "RSA2048", "ECCP256"}

InitFails ==
  {"none", "EVP_MD_CTX_create", "EVP_DigestInit_ex", "EVP_DigestVerifyInit",
   "EVP_DigestVerifyInit:owned", "EVP_DigestVerifyInit:published", "EVP_PKEY_CTX_new",
   "EVP_PKEY_verify_init", "EVP_PKEY_CTX_set_rsa_padding",
   "EVP_PKEY_CTX_set_signature_md", "EVP_PKEY_CTX_set_rsa_mgf1_md",
   "EVP_PKEY_CTX_set_rsa_pss_saltlen"}

SignInitFails == {"none", "EVP_MD_CTX_create", "EVP_DigestInit_ex"}

\* in_len of an update: small, a modulus, the whole accumulator, and a length
\* near the top of CK_ULONG.
InLens == {32, 256, BUF_SIZE, ULONG_MOD - 32}

\* Caller-declared capacities of an output buffer.
Caps == {63, 64, 256}

\* What the library and the hardware do during one sign final: everything
\* succeeds, or one step fails.
FinalEnv(fail, hw, strip_ok, refinal) ==
  [fail |-> fail, hw |-> hw, strip_ok |-> strip_ok, refinal |-> refinal]

FinalEnvs ==
  {FinalEnv("none", YKPIV_OK, TRUE, refinal) : refinal \in {"fails", "garbage"}}
    \cup {FinalEnv(fail, YKPIV_OK, TRUE, "garbage") :
             fail \in {"EVP_DigestFinal_ex", "prepare_rsa_signature", "RSA_padding_add"}}
    \cup {FinalEnv("none", hw, TRUE, "garbage") : hw \in PivStatuses \ {YKPIV_OK}}
    \cup {FinalEnv("none", YKPIV_OK, FALSE, "garbage")}

VerifyEnvs == [rc : {-2, -1, 0, 1}, der_ok : BOOLEAN]

SigLens == {64, 1024, 1025}

DecryptEnvs == [hw : PivStatuses, cb_len : {-1, 0, 64}]

\* ------------------------------------------------------------------ caller
\* The session layer runs one operation at a time: an init starts one, a
\* failed init or a final with a status other than CKR_BUFFER_TOO_SMALL ends
\* it, and cleanup returns the session to idle.
CanInit == caller.kind = "idle" /\ caller.ops < MaxOps

Started(kind, rv, needs_cleanup) ==
  IF rv = CKR_OK
  THEN [kind |-> kind, ended |-> FALSE, ops |-> caller.ops + 1, updates |-> 0,
        finals |-> 0]
  ELSE IF needs_cleanup
  THEN [kind |-> kind, ended |-> TRUE, ops |-> caller.ops + 1, updates |-> 0,
        finals |-> 0]
  ELSE [caller EXCEPT !.ops = @ + 1]

CanUpdate(kinds) ==
  /\ caller.kind \in kinds
  /\ ~caller.ended
  /\ caller.finals = 0
  /\ caller.updates < MaxUpdates

CanFinal(kind) == caller.kind = kind /\ ~caller.ended /\ caller.finals < MaxFinals

Finalled(rv, needs_cleanup) ==
  IF rv = CKR_BUFFER_TOO_SMALL THEN [caller EXCEPT !.finals = @ + 1]
  ELSE IF needs_cleanup THEN [caller EXCEPT !.finals = @ + 1, !.ended = TRUE]
  ELSE [caller EXCEPT !.kind = "idle", !.ended = FALSE, !.updates = 0, !.finals = 0]

\* Memory at the start of a call: nothing released by this call yet.
Mem0 == [mem EXCEPT !.freed = {}]

\* ------------------------------------------------------------------ actions
Called(name, rv) == [NoCall EXCEPT !.name = name, !.rv = rv]

SignInit ==
  /\ CanInit
  /\ \E key \in CallKeys, mech \in CallMechanisms, fail \in SignInitFails :
       LET r == sign_mechanism_init(op_info, Mem0, key, mech, fail)
       IN /\ op_info' = r.s
          /\ mem' = r.m
          /\ caller' = Started("sign", r.rv, TRUE)
          /\ call' = Called("sign_init", r.rv)
  /\ UNCHANGED args

VerifyInit ==
  /\ CanInit
  /\ \E key \in CallKeys, mech \in CallMechanisms, fail \in InitFails :
       LET r == verify_mechanism_init(op_info, Mem0, key, mech, fail)
       IN /\ op_info' = r.s
          /\ mem' = r.m
          /\ caller' = Started("verify", r.rv, TRUE)
          /\ call' = Called("verify_init", r.rv)
  /\ UNCHANGED args

DigestInit ==
  /\ CanInit
  /\ \E mechanism \in DigestMechs \cup {"CKM_RSA_PKCS", "CKM_SHA224", "CKM_ECDSA_SHA1"},
        fail \in {"none", "EVP_MD_CTX_create", "EVP_DigestInit_ex"} :
       LET r == digest_mechanism_init(op_info, Mem0, NoParam(mechanism), fail)
       IN /\ op_info' = r.s
          /\ mem' = r.m
          /\ caller' = Started("digest", r.rv, FALSE)
          /\ call' = Called("digest_init", r.rv)
  /\ UNCHANGED args

\* Parameter blocks of a decrypt init.
CallDecryptMechanisms ==
  {NoParam("CKM_RSA_X_509"), NoParam("CKM_RSA_PKCS"), NoParam("CKM_RSA_PKCS_OAEP"),
   NoParam("CKM_ECDSA"),
   OaepMech("CKM_RSA_PKCS_OAEP", TRUE, OAEP_PARAMS_SIZE, "CKM_SHA256", "CKG_MGF1_SHA256",
            "CKZ_DATA_SPECIFIED", TRUE, 8),
   OaepMech("CKM_RSA_PKCS_OAEP", TRUE, OAEP_PARAMS_SIZE, "CKM_SHA_1", "CKG_MGF1_SHA1",
            "0", FALSE, 0),
   OaepMech("CKM_RSA_PKCS_OAEP", TRUE, OAEP_PARAMS_SIZE, "CKM_MD5", "CKG_MGF1_SHA1",
            "CKZ_DATA_SPECIFIED", TRUE, 8)}

\* The session layer starts a decrypt operation with an empty accumulator.
decrypt_session_reset(s) == [s EXCEPT !.buf_len = 0, !.buf = <<>>]

DecryptInit ==
  /\ CanInit
  /\ \E key \in {"RSA2048", "ECCP256"}, mech \in CallDecryptMechanisms,
        fail \in {"none", "malloc"} :
       LET r == decrypt_mechanism_init(decrypt_session_reset(op_info), Mem0, key, mech, fail)
       IN /\ op_info' = r.s
          /\ mem' = r.m
          /\ caller' = Started("decrypt", r.rv, FALSE)
          /\ call' = Called("decrypt_init", r.rv)
  /\ UNCHANGED args

\* After an out-of-bounds write the process may go on or die.
AfterUpdate(r, crash, needs_cleanup) ==
  IF "oob_write" \in r.m.faults /\ crash THEN [caller EXCEPT !.kind = "crashed"]
  ELSE IF r.rv # CKR_OK /\ needs_cleanup
  THEN [caller EXCEPT !.updates = @ + 1, !.ended = TRUE]
  ELSE [caller EXCEPT !.updates = @ + 1]

Update ==
  /\ CanUpdate({"sign", "verify", "digest"})
  /\ \E in_len \in InLens, fail \in {"none", "EVP_DigestUpdate"}, crash \in BOOLEAN :
       LET r == digest_mechanism_update(op_info, Mem0, in_len, fail)
       IN /\ op_info' = r.s
          /\ mem' = r.m
          /\ caller' = AfterUpdate(r, crash, caller.kind # "digest")
          /\ call' = [Called("update", r.rv) EXCEPT !.in_len = in_len]
  /\ UNCHANGED args

\* The session layer accumulates ciphertext under the same bound.
decrypt_accumulate(s, m, in_len) ==
  IF UpdateTooLong(s.buf_len, in_len) THEN Ret(CKR_DATA_LEN_RANGE, s, m)
  ELSE update_append(s, m, in_len)

DecryptUpdate ==
  /\ CanUpdate({"decrypt"})
  /\ \E in_len \in {0, 256, BUF_SIZE + 1}, crash \in BOOLEAN :
       LET r == decrypt_accumulate(op_info, Mem0, in_len)
       IN /\ op_info' = r.s
          /\ mem' = r.m
          /\ caller' = AfterUpdate(r, crash, FALSE)
          /\ call' = [Called("decrypt_update", r.rv) EXCEPT !.in_len = in_len]
  /\ UNCHANGED args

FinCall(name, r, cap) ==
  [Called(name, r.rv) EXCEPT !.cap = cap, !.written = r.written, !.out = r.out,
                             !.out_len = r.out_len, !.hw_calls = r.hw_calls,
                             !.unpads = r.unpads]

\* What do_strip_DER_encoding_from_ECSIG did in a sign final: "-" when the
\* call did not get to it.
StripOutcome(s, r, env) ==
  IF r.hw_calls = 1 /\ env.hw = YKPIV_OK /\ StripsDER(s.sign.algorithm)
  THEN (IF env.strip_ok THEN "ok" ELSE "failed")
  ELSE "-"

SignFinal ==
  /\ CanFinal("sign")
  /\ \E cap \in Caps, env \in FinalEnvs :
       LET r == sign_mechanism_final(op_info, Mem0, cap, env)
       IN /\ op_info' = r.s
          /\ mem' = r.m
          /\ caller' = Finalled(r.rv, TRUE)
          /\ call' = [FinCall("sign_final", r, cap) EXCEPT
                        !.hw = env.hw, !.fail = env.fail,
                        !.strip = StripOutcome(op_info, r, env)]
  /\ UNCHANGED args

VerifyFinal ==
  /\ CanFinal("verify")
  /\ \E sig_len \in SigLens, env \in VerifyEnvs :
       LET r == verify_mechanism_final(op_info, Mem0, sig_len, env)
       IN /\ op_info' = r.s
          /\ mem' = r.m
          /\ caller' = Finalled(r.rv, TRUE)
          /\ call' = [Called("verify_final", r.rv) EXCEPT !.in_len = sig_len,
                        !.prim = r.prim, !.rc = r.rc, !.copied = r.copied]
  /\ UNCHANGED args

DigestFinal ==
  /\ CanFinal("digest")
  /\ \E cap \in {0, 20, 64}, fail \in {"none", "EVP_DigestFinal_ex"} :
       LET r == digest_mechanism_final(op_info, Mem0, cap, fail)
       IN /\ op_info' = r.s
          /\ mem' = r.m
          /\ caller' = Finalled(r.rv, FALSE)
          /\ call' = FinCall("digest_final", r, cap)
  /\ UNCHANGED args

\* Modulus size in bits of the key of the decrypt operation.
KeyLen == 2048

\* ykpiv_decipher_data deciphers only an input of the size of the modulus;
\* any other length it refuses with an error status.
DecipherEnvs(s) ==
  {env \in DecryptEnvs : env.hw = YKPIV_OK => s.buf_len = KeyLen \div 8}

DecryptFinal ==
  /\ CanFinal("decrypt")
  /\ \E cap \in Caps, env \in DecipherEnvs(op_info) :
       LET r == decrypt_mechanism_final(op_info, Mem0, cap, KeyLen, env)
       IN /\ op_info' = r.s
          /\ mem' = r.m
          /\ caller' = Finalled(r.rv, FALSE)
          /\ call' = [FinCall("decrypt_final", r, cap) EXCEPT
                        !.hw = env.hw, !.cb_len = env.cb_len]
  /\ UNCHANGED args

\* Cleanup is called to end or cancel the operation, and may be called again.
CanCleanup(kind, name) ==
  caller.kind = kind \/ (caller.kind = "idle" /\ call.name = name)

Cleaned == [caller EXCEPT !.kind = "idle", !.ended = FALSE, !.updates = 0, !.finals = 0]

SignCleanup ==
  /\ CanCleanup("sign", "sign_cleanup")
  /\ LET r == sign_mechanism_cleanup(op_info, Mem0)
     IN /\ op_info' = r.s
        /\ mem' = r.m
        /\ call' = Called("sign_cleanup", r.rv)
  /\ caller' = Cleaned
  /\ UNCHANGED args

VerifyCleanup ==
  /\ CanCleanup("verify", "verify_cleanup")
  /\ LET r == verify_mechanism_cleanup(op_info, Mem0)
     IN /\ op_info' = r.s
        /\ mem' = r.m
        /\ call' = Called("verify_cleanup", r.rv)
  /\ caller' = Cleaned
  /\ UNCHANGED args

Next ==
  \/ SignInit
  \/ VerifyInit
  \/ DigestInit
  \/ DecryptInit
  \/ Update
  \/ DecryptUpdate
  \/ SignFinal
  \/ VerifyFinal
  \/ DigestFinal
  \/ DecryptFinal
  \/ SignCleanup
  \/ VerifyCleanup

Spec == Init /\ [][Next]_vars

\* One protocol at a time on the session.
SignNext == SignInit \/ Update \/ SignFinal \/ SignCleanup

SignSpec == Init /\ [][SignNext]_vars

VerifyNext == VerifyInit \/ Update \/ VerifyFinal \/ VerifyCleanup

VerifySpec == Init /\ [][VerifyNext]_vars

SignVerifyNext ==
  \/ SignInit
  \/ VerifyInit
  \/ Update
  \/ SignFinal
  \/ VerifyFinal
  \/ SignCleanup
  \/ VerifyCleanup

SignVerifySpec == Init /\ [][SignVerifyNext]_vars

\* Sign operations with an elliptic-curve key of either size.
EcKeys == {"ECCP256", "ECCP384"}

EcSignMechanisms ==
  {NoParam(mechanism) :
     mechanism \in {"CKM_ECDSA", "CKM_ECDSA_SHA256", "CKM_ECDSA_SHA384", "CKM_RSA_PKCS"}}

EcSignInit ==
  /\ CanInit
  /\ \E key \in EcKeys, mech \in EcSignMechanisms, fail \in SignInitFails :
       LET r == sign_mechanism_init(op_info, Mem0, key, mech, fail)
       IN /\ op_info' = r.s
          /\ mem' = r.m
          /\ caller' = Started("sign", r.rv, TRUE)
          /\ call' = Called("sign_init", r.rv)
  /\ UNCHANGED args

EcSignNext == EcSignInit \/ Update \/ SignFinal \/ SignCleanup

EcSignSpec == Init /\ [][EcSignNext]_vars

DigestNext == DigestInit \/ Update \/ DigestFinal

DigestSpec == Init /\ [][DigestNext]_vars

\* A sign or verify cleanup called on the session once a digest operation has
\* been finalised.
CleanupAfterDigest ==
  /\ call.name = "digest_final"
  /\ \E name \in {"sign_cleanup", "verify_cleanup"} :
       LET r == IF name = "sign_cleanup" THEN sign_mechanism_cleanup(op_info, Mem0)
                ELSE verify_mechanism_cleanup(op_info, Mem0)
       IN /\ op_info' = r.s
          /\ mem' = r.m
          /\ call' = Called(name, r.rv)
  /\ caller' = Cleaned
  /\ UNCHANGED args

DigestCleanupNext == DigestInit \/ Update \/ DigestFinal \/ CleanupAfterDigest

DigestCleanupSpec == Init /\ [][DigestCleanupNext]_vars

DecryptNext == DecryptInit \/ DecryptUpdate \/ DecryptFinal

DecryptSpec == Init /\ [][DecryptNext]_vars

\* ------------------------------------------------------------------ init calls
\* sign_mechanism_init and verify_mechanism_init as functions of their
\* arguments: every key, mechanism, parameter block and failing library call,
\* applied to a fresh session.
AllParams(mechanism) ==
  IF mechanism \in PssCase
  THEN {NoParam(mechanism), Mech(mechanism, FALSE, PSS_PARAMS_SIZE, "0", "0", 0),
        Mech(mechanism, TRUE, PSS_PARAMS_SIZE - 8, "CKM_SHA256", "CKG_MGF1_SHA256", 32),
        Mech(mechanism, TRUE, PSS_PARAMS_SIZE + 8, "CKM_MD5", "CKG_MGF1_SHA256", 32)}
         \cup {Mech(mechanism, TRUE, PSS_PARAMS_SIZE, hashAlg, mgf, 32) :
                 hashAlg \in HashIds, mgf \in HashIds}
  ELSE {NoParam(mechanism),
        Mech(mechanism, TRUE, PSS_PARAMS_SIZE, "CKM_SHA_1", "CKG_MGF1_SHA1", 20)}

InitArgs ==
  UNION {[key : Keys \cup {NoKey}, mech : AllParams(mechanism), fail : InitFails] :
           mechanism \in SignMechanisms \cup OtherMechs}

InitI ==
  /\ op_info = ZeroOpInfo
  /\ mem = ZeroMem
  /\ caller = Idle
  /\ call = NoCall
  /\ args \in InitArgs

SignInitCall ==
  /\ call.name = "-"
  /\ LET r == sign_mechanism_init(op_info, Mem0, args.key, args.mech, args.fail)
     IN /\ op_info' = r.s
        /\ mem' = r.m
        /\ caller' = Started("sign", r.rv, TRUE)
        /\ call' = Called("sign_init", r.rv)
  /\ UNCHANGED args

VerifyInitCall ==
  /\ call.name = "-"
  /\ LET r == verify_mechanism_init(op_info, Mem0, args.key, args.mech, args.fail)
     IN /\ op_info' = r.s
        /\ mem' = r.m
        /\ caller' = Started("verify", r.rv, TRUE)
        /\ call' = Called("verify_init", r.rv)
  /\ UNCHANGED args

InitNext == SignInitCall \/ VerifyInitCall

InitSpec == InitI /\ [][InitNext]_vars

\* ------------------------------------------------------------------ key generation
CKR_ATTRIBUTE_VALUE_INVALID == "CKR_ATTRIBUTE_VALUE_INVALID"

\* Variant of generation_mechanisms that still lists the deprecated
\* CKM_ECDSA_KEY_PAIR_GEN.
generation_mechanisms_Deprecated ==
  <<"CKM_RSA_PKCS_KEY_PAIR_GEN", "CKM_ECDSA_KEY_PAIR_GEN", "CKM_EC_KEY_PAIR_GEN",
    "CKM_EC_EDWARDS_KEY_PAIR_GEN", "CKM_EC_MONTGOMERY_KEY_PAIR_GEN">>

\* static const CK_MECHANISM_TYPE generation_mechanisms[]
generation_mechanisms ==
  <<"CKM_RSA_PKCS_KEY_PAIR_GEN", "CKM_EC_KEY_PAIR_GEN", "CKM_EC_EDWARDS_KEY_PAIR_GEN",
    "CKM_EC_MONTGOMERY_KEY_PAIR_GEN">>

\* The token's answer to a mechanism-info query: token is the set of
\* mechanisms it reports.
get_token_mechanism_info(mechanism, token) ==
  IF mechanism \in token THEN CKR_OK ELSE CKR_MECHANISM_INVALID

\* check_generation_mechanism; queries counts the calls of
\* get_token_mechanism_info.
check_generation_mechanism(mechanism, token) ==
  LET supported == \E i \in 1..Len(generation_mechanisms) :
                     mechanism = generation_mechanisms[i]
  IN IF ~supported THEN [rv |-> CKR_MECHANISM_INVALID, queries |-> 0]
     ELSE IF get_token_mechanism_info(mechanism, token) # CKR_OK
          THEN [rv |-> CKR_MECHANISM_INVALID, queries |-> 1]
     ELSE [rv |-> CKR_OK, queries |-> 1]

\* Mechanisms a token may report, and mechanisms a caller may ask for.
TokenMechs ==
  {"CKM_RSA_PKCS_KEY_PAIR_GEN", "CKM_ECDSA_KEY_PAIR_GEN", "CKM_EC_KEY_PAIR_GEN",
   "CKM_EC_EDWARDS_KEY_PAIR_GEN", "CKM_EC_MONTGOMERY_KEY_PAIR_GEN"}

GenCallMechs ==
  TokenMechs \cup {"CKM_DSA_KEY_PAIR_GEN", "CKM_DH_PKCS_KEY_PAIR_GEN", "CKM_RSA_PKCS",
                   "CKM_ECDSA"}

GenI ==
  /\ op_info = ZeroOpInfo
  /\ mem = ZeroMem
  /\ caller = Idle
  /\ call = NoCall
  /\ args \in [mechanism : GenCallMechs, token : SUBSET TokenMechs]

CheckGenerationCall ==
  /\ call.name = "-"
  /\ LET r == check_generation_mechanism(args.mechanism, args.token)
     IN call' = [Called("check_generation", r.rv) EXCEPT !.queries = r.queries]
  /\ UNCHANGED <<op_info, mem, caller, args>>

GenSpec == GenI /\ [][CheckGenerationCall]_vars

\* ------------------------------------------------------------------ derive template
CK_FALSE == 0
CK_TRUE == 1
CKO_SECRET_KEY == 4
CKK_GENERIC_SECRET == 16

\* *((CK_BBOOL *) value): the first byte of the value.
ReadBBool(value) == value % 256

\* *((CK_ULONG_PTR) value)
ReadULong(value) == value % ULONG_MOD

\* Variant of validate_derive_key_attribute that takes any non-zero
\* CKA_EXTRACTABLE for true.
validate_derive_key_attribute_Truthy(type, value) ==
  CASE type = "CKA_TOKEN" ->
         IF ReadBBool(value) # CK_FALSE THEN CKR_ATTRIBUTE_VALUE_INVALID ELSE CKR_OK
    [] type = "CKA_CLASS" ->
         IF ReadULong(value) # CKO_SECRET_KEY THEN CKR_ATTRIBUTE_VALUE_INVALID ELSE CKR_OK
    [] type = "CKA_KEY_TYPE" ->
         IF ReadULong(value) # CKK_GENERIC_SECRET THEN CKR_ATTRIBUTE_VALUE_INVALID
         ELSE CKR_OK
    [] type = "CKA_EXTRACTABLE" ->
         IF ReadBBool(value) = CK_FALSE THEN CKR_ATTRIBUTE_VALUE_INVALID ELSE CKR_OK
    [] OTHER -> CKR_OK

validate_derive_key_attribute(type, value) ==
  CASE type = "CKA_TOKEN" ->
         IF ReadBBool(value) # CK_FALSE THEN CKR_ATTRIBUTE_VALUE_INVALID ELSE CKR_OK
    [] type = "CKA_CLASS" ->
         IF ReadULong(value) # CKO_SECRET_KEY THEN CKR_ATTRIBUTE_VALUE_INVALID ELSE CKR_OK
    [] type = "CKA_KEY_TYPE" ->
         IF ReadULong(value) # CKK_GENERIC_SECRET THEN CKR_ATTRIBUTE_VALUE_INVALID
         ELSE CKR_OK
    [] type = "CKA_EXTRACTABLE" ->
         IF ReadBBool(value) # CK_TRUE THEN CKR_ATTRIBUTE_VALUE_INVALID ELSE CKR_OK
    [] OTHER -> CKR_OK

\* Attribute types of a derive template, and the values they carry: a CK_BBOOL
\* is one byte, the others a CK_ULONG.
AttrTypes ==
  {"CKA_TOKEN", "CKA_CLASS", "CKA_KEY_TYPE", "CKA_EXTRACTABLE", "CKA_SENSITIVE",
   "CKA_LABEL", "CKA_VALUE_LEN", "CKA_PRIVATE"}

BBoolTypes == {"CKA_TOKEN", "CKA_EXTRACTABLE", "CKA_SENSITIVE", "CKA_PRIVATE"}

AttrValues(type) ==
  IF type \in BBoolTypes THEN 0..17 \cup {255}
  ELSE 0..17 \cup {256, ULONG_MOD - 1}

DeriveI ==
  /\ op_info = ZeroOpInfo
  /\ mem = ZeroMem
  /\ caller = Idle
  /\ call = NoCall
  /\ args \in UNION {[type : {type}, value : AttrValues(type)] : type \in AttrTypes}

ValidateDeriveCall ==
  /\ call.name = "-"
  /\ call' = Called("validate_derive", validate_derive_key_attribute(args.type, args.value))
  /\ UNCHANGED <<op_info, mem, caller, args>>

DeriveSpec == DeriveI /\ [][ValidateDeriveCall]_vars

\* ------------------------------------------------------------------ EC signature forms
\* Byte values at the edges of the sign bit.
SigBytes == {0, 1, 127, 128, 255}

\* The bytes of t from position i on.
Drop(t, i) == SubSeq(t, i + 1, Len(t))

\* A byte string without its leading zero bytes, one byte at least.
RECURSIVE TrimZeros(_)
TrimZeros(t) == IF Len(t) > 1 /\ t[1] = 0 THEN TrimZeros(Tail(t)) ELSE t

\* A half as a DER INTEGER: a leading zero byte is added when the high bit of
\* the first byte would be taken for a sign bit.
DerInteger(half) ==
  LET v == TrimZeros(half)
      body == IF v[1] >= 128 THEN <<0>> \o v ELSE v
  IN <<2, Len(body)>> \o body

\* apply-DER: the DER SEQUENCE of the two fixed-width halves of x.
apply_DER(x) ==
  LET w == Len(x) \div 2
      content == DerInteger(SubSeq(x, 1, w)) \o DerInteger(SubSeq(x, w + 1, 2 * w))
  IN <<48, Len(content)>> \o content

\* t left-padded with zero bytes to w bytes.
RECURSIVE PadLeft(_, _)
PadLeft(t, w) == IF Len(t) >= w THEN t ELSE PadLeft(<<0>> \o t, w)

\* Variant of FixWidth that does not pad a short integer.
FixWidth_NoPad(int, w) ==
  LET v == IF Len(int) > 0 /\ int[1] = 0 THEN Tail(int) ELSE int
  IN IF Len(v) > w THEN SubSeq(v, Len(v) - w + 1, Len(v)) ELSE v

\* One integer of a DER signature in w bytes: a leading zero sign byte is
\* dropped, a longer integer is truncated, a shorter one left-padded.
FixWidth(int, w) ==
  LET v == IF Len(int) > 0 /\ int[1] = 0 THEN Tail(int) ELSE int
  IN IF Len(v) > w THEN SubSeq(v, Len(v) - w + 1, Len(v)) ELSE PadLeft(v, w)

\* strip-DER: the fixed-width form, out_len bytes, of a DER SEQUENCE of two
\* integers; ok is FALSE when der is no such sequence.
strip_DER(der, out_len) ==
  LET w == out_len \div 2
      wellR == /\ Len(der) >= 4
               /\ der[1] = 48
               /\ der[2] = Len(der) - 2
               /\ der[3] = 2
               /\ der[4] >= 1
               /\ Len(der) >= 4 + der[4] + 2
      rlen == der[4]
      r == SubSeq(der, 5, 4 + rlen)
      rest == Drop(der, 4 + rlen)
      wellS == rest[1] = 2 /\ rest[2] >= 1 /\ Len(rest) = 2 + rest[2]
      sv == Drop(rest, 2)
  IN IF ~wellR THEN [ok |-> FALSE, sig |-> <<>>]
     ELSE IF ~wellS THEN [ok |-> FALSE, sig |-> <<>>]
     ELSE [ok |-> TRUE, sig |-> FixWidth(r, w) \o FixWidth(sv, w)]

\* Every fixed-width signature of the expected width.
DerI ==
  /\ op_info = ZeroOpInfo
  /\ mem = ZeroMem
  /\ caller = Idle
  /\ call = NoCall
  /\ args \in [x : [1..(2 * HalfLen) -> SigBytes]]

\* The re-encoding verify_mechanism_final applies to a caller's signature.
ApplyDerCall ==
  /\ call.name = "-"
  /\ call' = [Called("apply_der", CKR_OK) EXCEPT !.out = apply_DER(args.x),
                                                  !.out_len = Len(apply_DER(args.x))]
  /\ UNCHANGED <<op_info, mem, caller, args>>

\* The stripping sign_mechanism_final applies to the hardware's signature.
StripDerCall ==
  /\ call.name = "apply_der"
  /\ LET r == strip_DER(call.out, 2 * HalfLen)
     IN call' = [Called("strip_der", IF r.ok THEN CKR_OK ELSE CKR_FUNCTION_FAILED)
                   EXCEPT !.out = r.sig, !.out_len = Len(r.sig), !.in_len = call.out_len]
  /\ UNCHANGED <<op_info, mem, caller, args>>

DerNext == ApplyDerCall \/ StripDerCall

DerSpec == DerI /\ [][DerNext]_vars

\* ------------------------------------------------------------------ two sessions
\* Two sessions of one process.  Here op_info and caller hold one record per
\* session, mem is the one heap of the process, and args holds, per session,
\* the Operation Context and the heap of that session's calls run alone.
Sessions == {1, 2}

\* session->op_info = s: every entry point reaches the Operation Context
\* through the session pointer it is given.
SessionStore_Shared(store, i, s) == [j \in Sessions |-> s]

SessionStore(store, i, s) == [store EXCEPT ![i] = s]

\* The heap a call sees.
CallMem(m) == [m EXCEPT !.freed = {}]

\* The record of a call of session i: what it returned among the other
\* session's calls (r), what it returns alone (a), and the state outside the
\* session that it used.
SessionCall(i, name, r, a, out, alone_out) ==
  [session |-> i, name |-> name, rv |-> r.rv, out |-> out.out,
   alone |-> [rv |-> a.rv, out |-> alone_out.out], shared |-> out.shared]

\* A call that hands nothing to the caller and stays within the session.
NoOut == [out |-> <<>>, shared |-> {}]

\* What a final wrote for the caller; a final that gets to ykpiv_sign_data
\* hands it session->slot->piv_state, the card channel of every session of
\* the slot.
FinalOut(r) ==
  [out |-> [written |-> r.written, out |-> r.out, out_len |-> r.out_len],
   shared |-> IF r.hw_calls > 0 THEN {"slot->piv_state"} ELSE {}]

\* A call of session i has returned.
Returned(i, name, r, a, out, alone_out, next) ==
  /\ op_info' = SessionStore(op_info, i, r.s)
  /\ mem' = r.m
  /\ args' = [args EXCEPT ![i] = [s |-> a.s, m |-> a.m]]
  /\ call' = SessionCall(i, name, r, a, out, alone_out)
  /\ caller' = [caller EXCEPT ![i] = next]

TwoInit ==
  /\ op_info = [i \in Sessions |-> ZeroOpInfo]
  /\ mem = ZeroMem
  /\ caller = [i \in Sessions |-> Idle]
  /\ call = SessionCall(0, "-", [rv |-> "-"], [rv |-> "-"], NoOut, NoOut)
  /\ args = [i \in Sessions |-> [s |-> ZeroOpInfo, m |-> ZeroMem]]

SessionSignInit(i) ==
  /\ caller[i].kind = "idle"
  /\ \E key \in {"RSA2048", "ECCP256"},
        mechanism \in {"CKM_ECDSA", "CKM_SHA256_RSA_PKCS"},
        fail \in {"none", "EVP_DigestInit_ex"} :
       LET r == sign_mechanism_init(op_info[i], CallMem(mem), key, NoParam(mechanism), fail)
           a == sign_mechanism_init(args[i].s, CallMem(args[i].m), key,
                                    NoParam(mechanism), fail)
       IN Returned(i, "sign_init", r, a, NoOut, NoOut,
                   [kind |-> "sign", ended |-> r.rv # CKR_OK, ops |-> 0,
                    updates |-> 0, finals |-> 0])

SessionDigestInit(i) ==
  /\ caller[i].kind = "idle"
  /\ \E mechanism \in {"CKM_SHA256", "CKM_ECDSA"} :
       LET r == digest_mechanism_init(op_info[i], CallMem(mem), NoParam(mechanism), "none")
           a == digest_mechanism_init(args[i].s, CallMem(args[i].m), NoParam(mechanism),
                                      "none")
       IN Returned(i, "digest_init", r, a, NoOut, NoOut,
                   [kind |-> IF r.rv = CKR_OK THEN "digest" ELSE "idle", ended |-> FALSE,
                    ops |-> 0, updates |-> 0, finals |-> 0])

SessionUpdate(i) ==
  /\ caller[i].kind \in {"sign", "digest"}
  /\ ~caller[i].ended
  /\ caller[i].finals = 0
  /\ caller[i].updates < MaxUpdates
  /\ \E in_len \in {32} :
       LET r == digest_mechanism_update(op_info[i], CallMem(mem), in_len, "none")
           a == digest_mechanism_update(args[i].s, CallMem(args[i].m), in_len, "none")
       IN Returned(i, "update", r, a, NoOut, NoOut,
                   [caller[i] EXCEPT !.updates = @ + 1])

SessionSignFinal(i) ==
  /\ caller[i].kind = "sign"
  /\ ~caller[i].ended
  /\ caller[i].finals < MaxFinals
  /\ \E cap \in {63, 256},
        env \in {FinalEnv("none", hw, TRUE, "garbage") :
                   hw \in {YKPIV_OK, YKPIV_AUTHENTICATION_ERROR}} :
       LET r == sign_mechanism_final(op_info[i], CallMem(mem), cap, env)
           a == sign_mechanism_final(args[i].s, CallMem(args[i].m), cap, env)
       IN Returned(i, "sign_final", r, a, FinalOut(r), FinalOut(a),
                   IF r.rv = CKR_BUFFER_TOO_SMALL THEN [caller[i] EXCEPT !.finals = @ + 1]
                   ELSE [caller[i] EXCEPT !.finals = @ + 1, !.ended = TRUE])

SessionDigestFinal(i) ==
  /\ caller[i].kind = "digest"
  /\ \E fail \in {"none", "EVP_DigestFinal_ex"} :
       LET r == digest_mechanism_final(op_info[i], CallMem(mem), 64, fail)
           a == digest_mechanism_final(args[i].s, CallMem(args[i].m), 64, fail)
       IN Returned(i, "digest_final", r, a, FinalOut(r), FinalOut(a),
                   [caller[i] EXCEPT !.kind = "idle", !.updates = 0])

SessionSignCleanup(i) ==
  /\ caller[i].kind = "sign"
  /\ LET r == sign_mechanism_cleanup(op_info[i], CallMem(mem))
         a == sign_mechanism_cleanup(args[i].s, CallMem(args[i].m))
     IN Returned(i, "sign_cleanup", r, a, NoOut, NoOut,
                 [caller[i] EXCEPT !.kind = "idle", !.ended = FALSE, !.updates = 0,
                                   !.finals = 0])

TwoNext ==
  \E i \in Sessions :
    \/ SessionSignInit(i)
    \/ SessionDigestInit(i)
    \/ SessionUpdate(i)
    \/ SessionSignFinal(i)
    \/ SessionDigestFinal(i)
    \/ SessionSignCleanup(i)

TwoSpec == TwoInit /\ [][TwoNext]_vars

\* ================================================================== claims
\* The mechanism families as the specification names them.
RsaSignMechs ==
  {"CKM_RSA_X_509", "CKM_RSA_PKCS", "CKM_RSA_PKCS_PSS", "CKM_SHA1_RSA_PKCS",
   "CKM_SHA256_RSA_PKCS", "CKM_SHA384_RSA_PKCS", "CKM_SHA512_RSA_PKCS",
   "CKM_SHA1_RSA_PKCS_PSS", "CKM_SHA256_RSA_PKCS_PSS", "CKM_SHA384_RSA_PKCS_PSS",
   "CKM_SHA512_RSA_PKCS_PSS"}

EcSignMechs ==
  {"CKM_ECDSA", "CKM_EDDSA", "CKM_ECDSA_SHA1", "CKM_ECDSA_SHA224", "CKM_ECDSA_SHA256",
   "CKM_ECDSA_SHA384", "CKM_ECDSA_SHA512"}

AllPssMechs ==
  {"CKM_RSA_PKCS_PSS", "CKM_SHA1_RSA_PKCS_PSS", "CKM_SHA256_RSA_PKCS_PSS",
   "CKM_SHA384_RSA_PKCS_PSS", "CKM_SHA512_RSA_PKCS_PSS"}

\* The hash a hashed-PSS mechanism implies.
ImpliedPssHash(mechanism) ==
  CASE mechanism = "CKM_SHA1_RSA_PKCS_PSS" -> "sha1"
    [] mechanism = "CKM_SHA256_RSA_PKCS_PSS" -> "sha256"
    [] mechanism = "CKM_SHA384_RSA_PKCS_PSS" -> "sha384"
    [] mechanism = "CKM_SHA512_RSA_PKCS_PSS" -> "sha512"
    [] OTHER -> "none"

\* The hash an identifier of a parameter block names, "none" if unrecognised.
NamedHash(id) ==
  CASE id \in {"CKM_SHA_1", "CKG_MGF1_SHA1"} -> "sha1"
    [] id \in {"CKG_MGF1_SHA224"} -> "sha224"
    [] id \in {"CKM_SHA256", "CKG_MGF1_SHA256"} -> "sha256"
    [] id \in {"CKM_SHA384", "CKG_MGF1_SHA384"} -> "sha384"
    [] id \in {"CKM_SHA512", "CKG_MGF1_SHA512"} -> "sha512"
    [] OTHER -> "none"

IsRsaKey(key) == key = "RSA2048"

WellSized(mech) == mech.has_param /\ mech.ulParameterLen = 24

InitCalled == call.name \in {"sign_init", "verify_init"}

\* The library calls verify_mechanism_init makes before it looks at the
\* identifiers of a PSS parameter block: the failing call args.fail is one of
\* them and is reached for this mechanism.
VerifySetupFails ==
  /\ call.name = "verify_init"
  /\ IF ImpliedPssHash(args.mech.mechanism) # "none"
     THEN args.fail \in {"EVP_MD_CTX_create", "EVP_DigestVerifyInit",
                         "EVP_DigestVerifyInit:owned", "EVP_DigestVerifyInit:published",
                         "EVP_PKEY_CTX_set_rsa_padding"}
     ELSE args.fail \in {"EVP_PKEY_CTX_new", "EVP_PKEY_verify_init",
                         "EVP_PKEY_CTX_set_rsa_padding"}

\* A hashed-PSS init with an RSA key and a well-sized block whose identifiers
\* are both recognised but whose hashAlg is not the mechanism's hash.
PssConflictCase ==
  /\ InitCalled
  /\ ImpliedPssHash(args.mech.mechanism) # "none"
  /\ IsRsaKey(args.key)
  /\ WellSized(args.mech)
  /\ NamedHash(args.mech.hashAlg) # "none"
  /\ NamedHash(args.mech.mgf) # "none"
  /\ NamedHash(args.mech.hashAlg) # ImpliedPssHash(args.mech.mechanism)

\* An unhashed CKM_RSA_PKCS_PSS init with an RSA key and a well-sized block
\* whose identifiers are both recognised.
PssUnhashedCase ==
  /\ InitCalled
  /\ args.mech.mechanism = "CKM_RSA_PKCS_PSS"
  /\ IsRsaKey(args.key)
  /\ WellSized(args.mech)
  /\ NamedHash(args.mech.hashAlg) # "none"
  /\ NamedHash(args.mech.mgf) # "none"

\* C6 as stated: a hashed-PSS init whose declared hashAlg conflicts with the
\* mechanism's hash returns ArgumentsBad, from sign and from verify init
\* alike; CKM_RSA_PKCS_PSS never returns ArgumentsBad for that reason.
C6_Original ==
  /\ PssConflictCase => call.rv = CKR_ARGUMENTS_BAD
  /\ PssUnhashedCase => call.rv # CKR_ARGUMENTS_BAD

\* C6 (amended): a hashed-PSS init whose declared hashAlg conflicts with the
\* mechanism's hash returns ArgumentsBad from sign_mechanism_init always, and
\* from verify_mechanism_init unless one of the context set-up calls it makes
\* first fails, in which case it returns FunctionFailed; CKM_RSA_PKCS_PSS
\* never returns ArgumentsBad for that reason.
C6_PssHashConflictRejected ==
  /\ PssConflictCase =>
       IF VerifySetupFails THEN call.rv = CKR_FUNCTION_FAILED
       ELSE call.rv = CKR_ARGUMENTS_BAD
  /\ PssUnhashedCase => call.rv # CKR_ARGUMENTS_BAD

\* verify_mechanism_init has rejected SHA256_RSA_PKCS_PSS with hashAlg CKM_SHA_1.
C6_Witness ==
  /\ PssConflictCase
  /\ args.mech.mechanism = "CKM_SHA256_RSA_PKCS_PSS"
  /\ args.mech.hashAlg = "CKM_SHA_1"
  /\ call.name = "verify_init"
  /\ call.rv = CKR_ARGUMENTS_BAD

\* A PSS init with an RSA key.
PssCaseRsa == InitCalled /\ args.mech.mechanism \in AllPssMechs /\ IsRsaKey(args.key)

UnknownIds == NamedHash(args.mech.hashAlg) = "none" \/ NamedHash(args.mech.mgf) = "none"

\* C7 as stated: a PSS init with an RSA key returns MechanismParamInvalid for
\* an absent or mis-sized block and ArgumentsBad for a well-sized block with
\* an unrecognised hashAlg or mgf, from sign and from verify init alike.
C7_Original ==
  PssCaseRsa =>
    /\ ~WellSized(args.mech) => call.rv = CKR_MECHANISM_PARAM_INVALID
    /\ WellSized(args.mech) /\ UnknownIds => call.rv = CKR_ARGUMENTS_BAD

\* C7 (amended): a PSS init with an RSA key returns MechanismParamInvalid for
\* an absent or mis-sized block, whatever the identifiers in it; for a
\* well-sized block with an unrecognised hashAlg or mgf sign_mechanism_init
\* returns ArgumentsBad, and verify_mechanism_init returns ArgumentsBad unless
\* one of the context set-up calls it makes first fails, in which case it
\* returns FunctionFailed.
C7_PssParamsChecked ==
  PssCaseRsa =>
    /\ ~WellSized(args.mech) => call.rv = CKR_MECHANISM_PARAM_INVALID
    /\ WellSized(args.mech) /\ UnknownIds =>
         IF VerifySetupFails THEN call.rv = CKR_FUNCTION_FAILED
         ELSE call.rv = CKR_ARGUMENTS_BAD

\* A mis-sized block that names an unrecognised hash has been rejected for
\* its size.
C7_Witness ==
  /\ PssCaseRsa
  /\ call.name = "sign_init"
  /\ args.mech.has_param
  /\ args.mech.ulParameterLen # 24
  /\ UnknownIds
  /\ call.rv = CKR_MECHANISM_PARAM_INVALID

\* C8: sign_mechanism_init returns KeyTypeInconsistent without a key;
\* otherwise MechanismInvalid for a mechanism outside the sign set; otherwise
\* KeyTypeInconsistent exactly when an RSA mechanism meets a non-RSA key or an
\* ECDSA/EdDSA mechanism meets an RSA key; and OK only when none applies.
C8_SignInitRejections ==
  call.name = "sign_init" =>
    LET key == args.key
        mechanism == args.mech.mechanism
        supported == mechanism \in RsaSignMechs \cup EcSignMechs
        mismatch == \/ mechanism \in RsaSignMechs /\ ~IsRsaKey(key)
                    \/ mechanism \in EcSignMechs /\ IsRsaKey(key)
    IN /\ key = NoKey => call.rv = CKR_KEY_TYPE_INCONSISTENT
       /\ key # NoKey /\ ~supported => call.rv = CKR_MECHANISM_INVALID
       /\ key # NoKey /\ supported => (call.rv = CKR_KEY_TYPE_INCONSISTENT <=> mismatch)
       /\ call.rv = CKR_OK => key # NoKey /\ supported /\ ~mismatch

\* CKM_ECDSA with an RSA key has been rejected.
C8_Witness ==
  /\ call.name = "sign_init"
  /\ args.key = "RSA2048"
  /\ args.mech.mechanism = "CKM_ECDSA"
  /\ call.rv = CKR_KEY_TYPE_INCONSISTENT

\* A capacity no result exceeds.
AmpleCap == BUF_SIZE

\* The accumulator and, for sign, the running hash the Operation Context holds.
SameContext ==
  /\ op_info'.buf = op_info.buf
  /\ op_info'.buf_len = op_info.buf_len
  /\ op_info'.md_ctx = op_info.md_ctx
  /\ mem'.heap = mem.heap

\* C1: a sign_mechanism_final that returns BufferTooSmall leaves the running
\* hash, the accumulator and its length as they were, and the same call with
\* a sufficient buffer then returns OK with the signature a single call with
\* a sufficient buffer would have produced.
C1_SignFinalRetry ==
  [][call'.name = "sign_final" /\ call'.rv = CKR_BUFFER_TOO_SMALL =>
       /\ SameContext
       /\ \A env \in FinalEnvs :
            LET single == sign_mechanism_final(op_info, Mem0, AmpleCap, env)
                retry == sign_mechanism_final(op_info', mem', AmpleCap, env)
            IN single.rv = CKR_OK =>
                 retry.rv = CKR_OK /\ retry.out = single.out /\ retry.out_len = single.out_len]_vars

\* Whether digest_mechanism_update accumulates (rather than feeds a running hash).
Accumulates == op_info.md_ctx = NULL \/ op_info.mechanism = "CKM_EDDSA"

\* C2: buf_len never exceeds the capacity of the accumulator, and an update
\* whose in_len would take the length past the capacity returns DataLenRange
\* and leaves the accumulator and buf_len as they were, for every in_len of
\* the machine word.
C2_AccumulatorBounded ==
  [][/\ op_info'.buf_len <= BUF_SIZE
     /\ call'.name = "update" /\ Accumulates /\ op_info.buf_len + call'.in_len > BUF_SIZE =>
          /\ call'.rv = CKR_DATA_LEN_RANGE
          /\ op_info'.buf = op_info.buf
          /\ op_info'.buf_len = op_info.buf_len]_vars

Cleanups == {"sign_cleanup", "verify_cleanup"}

LiveIds(m) == {id \in ObjIds : m.heap[id].live}

C4_NoLabelLeak ==
  /\ \A id \in ObjIds :
       mem.heap[id].live /\ mem.heap[id].kind = "label" => op_info.encrypt.oaep_label = id
  /\ caller.kind = "idle" => \A id \in ObjIds : ~mem.heap[id].live

\* C5: verify_mechanism_final returns OK exactly when the primitive it
\* delegated to reported a match, SignatureInvalid exactly when it reported a
\* mismatch, and FunctionFailed exactly when the primitive reported an error
\* or the DER re-encoding before it failed.
C5_VerifyFinalStatus ==
  call.name = "verify_final" =>
    /\ call.rv \in {CKR_OK, CKR_SIGNATURE_INVALID, CKR_FUNCTION_FAILED}
    /\ call.rv = CKR_OK <=> (call.prim # "none" /\ call.rc > 0)
    /\ call.rv = CKR_SIGNATURE_INVALID <=> (call.prim # "none" /\ call.rc = 0)
    /\ call.rv = CKR_FUNCTION_FAILED <=> (call.prim = "none" \/ call.rc < 0)

\* The combined hash-and-verify primitive has reported a mismatch.
C5_Witness ==
  /\ call.name = "verify_final"
  /\ call.prim = "EVP_DigestVerifyFinal"
  /\ call.rc = 0
  /\ call.rv = CKR_SIGNATURE_INVALID

\* C9: a decrypt_mechanism_final that returns BufferTooSmall leaves the
\* accumulated ciphertext and its length as they were, and the same call with
\* a sufficient buffer then returns OK with the plaintext a single call with
\* a sufficient buffer would have produced.
C9_DecryptFinalRetry ==
  [][call'.name = "decrypt_final" /\ call'.rv = CKR_BUFFER_TOO_SMALL =>
       /\ op_info'.buf = op_info.buf
       /\ op_info'.buf_len = op_info.buf_len
       /\ \A env \in DecryptEnvs :
            LET single == decrypt_mechanism_final(op_info, Mem0, AmpleCap, KeyLen, env)
                retry == decrypt_mechanism_final(op_info', mem', AmpleCap, KeyLen, env)
            IN single.rv = CKR_OK =>
                 retry.rv = CKR_OK /\ retry.out = single.out /\ retry.out_len = single.out_len]_vars

\* C10: decrypt_mechanism_final returns UserNotLoggedIn exactly when the
\* hardware reports the authentication-required status and DeviceError for
\* every other status but OK; in both cases it attempts no unpadding and
\* writes nothing to the caller's buffer or length.
C10_DecipherFailure ==
  call.name = "decrypt_final" =>
    /\ call.rv = CKR_USER_NOT_LOGGED_IN <=> call.hw = YKPIV_AUTHENTICATION_ERROR
    /\ call.hw \notin {YKPIV_OK, YKPIV_AUTHENTICATION_ERROR} => call.rv = CKR_DEVICE_ERROR
    /\ call.rv = CKR_DEVICE_ERROR => call.hw \notin {YKPIV_OK, YKPIV_AUTHENTICATION_ERROR}
    /\ call.hw # YKPIV_OK =>
         call.unpads = 0 /\ ~call.written /\ call.out = <<>> /\ call.out_len = call.cap

\* The hardware has asked for authentication during a decrypt final.
C10_Witness ==
  /\ call.name = "decrypt_final"
  /\ call.hw = YKPIV_AUTHENTICATION_ERROR
  /\ call.rv = CKR_USER_NOT_LOGGED_IN
  /\ op_info.buf_len > 0

\* Length of the message decrypt_mechanism_final has after the padding step:
\* what the padding check returned, or the whole block without padding.
UnpaddedLen == IF call.unpads = 1 THEN call.cb_len ELSE KeyLen \div 8

\* C11: after a successful hardware decipher, decrypt_mechanism_final
\* returns FunctionFailed with the output length zero when the padding check
\* fails, BufferTooSmall with the output length zero when the unpadded message
\* is longer than the caller's capacity, and writes nothing to the caller's
\* buffer in either case.
C11_DecryptFinalFailures ==
  call.name = "decrypt_final" /\ call.hw = YKPIV_OK =>
    /\ UnpaddedLen <= 0 =>
         call.rv = CKR_FUNCTION_FAILED /\ call.out_len = 0 /\ ~call.written /\ call.out = <<>>
    /\ UnpaddedLen > call.cap =>
         call.rv = CKR_BUFFER_TOO_SMALL /\ call.out_len = 0 /\ ~call.written /\ call.out = <<>>
    /\ call.rv \in {CKR_FUNCTION_FAILED, CKR_BUFFER_TOO_SMALL} =>
         call.out_len = 0 /\ ~call.written

\* A padding check has failed after a successful decipher.
C11_Witness ==
  /\ call.name = "decrypt_final"
  /\ call.hw = YKPIV_OK
  /\ call.unpads = 1
  /\ call.cb_len = -1
  /\ call.rv = CKR_FUNCTION_FAILED
  /\ call.out_len = 0

\* C12: digest_mechanism_final writes no more bytes into the caller's buffer
\* than the capacity the caller declared in *pDigestLength.
C12_DigestFinalBounded ==
  call.name = "digest_final" /\ call.written => call.out_len <= call.cap

EcAlgorithms == {"YKPIV_ALGO_ECCP256", "YKPIV_ALGO_ECCP384"}

\* C13: when sign_mechanism_final returns OK for a P-256 or P-384 key the
\* length reported is out_len and the bytes copied are the output of the
\* DER-stripping step applied to the hardware's result; when the stripping
\* step fails nothing is copied.
C13_EcSignatureStripped ==
  call.name = "sign_final" /\ op_info.sign.algorithm \in EcAlgorithms =>
    /\ call.rv = CKR_OK =>
         /\ call.written
         /\ call.out_len = op_info.out_len
         /\ Len(call.out) >= 2
         /\ call.out[Len(call.out)].op = "strip_der"
         /\ call.out[Len(call.out)].n = op_info.out_len
         /\ call.out[Len(call.out) - 1].op = "sign"
    /\ call.strip = "failed" => call.rv # CKR_OK /\ ~call.written /\ call.out = <<>>

\* A P-384 signature has been delivered in its fixed-width form.
C13_Witness ==
  /\ call.name = "sign_final"
  /\ op_info.sign.algorithm = "YKPIV_ALGO_ECCP384"
  /\ call.rv = CKR_OK
  /\ call.strip = "ok"
  /\ call.out_len = 96

\* The step of sign_mechanism_final before the hardware call that call.fail
\* names is one this operation runs.
StepFailed ==
  \/ call.fail = "EVP_DigestFinal_ex" /\ op_info.md_ctx # 0
  \/ call.fail = "prepare_rsa_signature" /\ op_info.md_ctx # 0 /\ op_info.sign.padding = 1
  \/ call.fail = "RSA_padding_add" /\ op_info.sign.padding \in {1, 3, 6}

\* C17: one sign_mechanism_final invokes the hardware at most once, and only
\* after digest finalisation, envelope wrapping and padding have succeeded;
\* when one of them fails the call returns FunctionFailed without invoking
\* the hardware.
C17_HardwareAfterPadding ==
  call.name = "sign_final" =>
    /\ call.hw_calls <= 1
    /\ StepFailed => call.rv = CKR_FUNCTION_FAILED /\ call.hw_calls = 0
    /\ call.hw_calls = 0 => call.rv = CKR_FUNCTION_FAILED

\* Padding has failed in a sign final and the hardware was not invoked.
C17_Witness ==
  /\ call.name = "sign_final"
  /\ call.fail = "RSA_padding_add"
  /\ StepFailed
  /\ call.rv = CKR_FUNCTION_FAILED
  /\ call.hw_calls = 0

\* C18: whenever sign_mechanism_final returns a status other than OK the
\* caller's signature buffer and *sig_len are as they were.
C18_NoPartialSignature ==
  call.name = "sign_final" /\ call.rv # CKR_OK =>
    ~call.written /\ call.out = <<>> /\ call.out_len = call.cap

\* A sign final has returned BufferTooSmall after the hardware signed.
C18_Witness ==
  /\ call.name = "sign_final"
  /\ call.rv = CKR_BUFFER_TOO_SMALL
  /\ call.hw_calls = 1
  /\ call.out_len = call.cap

\* The mechanisms the allow-list of key-pair generation names.
AllowedGeneration ==
  {"CKM_RSA_PKCS_KEY_PAIR_GEN", "CKM_EC_KEY_PAIR_GEN", "CKM_EC_EDWARDS_KEY_PAIR_GEN",
   "CKM_EC_MONTGOMERY_KEY_PAIR_GEN"}

\* C14: check_generation_mechanism returns OK exactly when the mechanism is
\* on the allow-list and the token reports it; otherwise it returns
\* MechanismInvalid, and it does not query the token for a mechanism off the
\* allow-list.
C14_GenerationAllowList ==
  call.name = "check_generation" =>
    /\ call.rv = CKR_OK <=>
         (args.mechanism \in AllowedGeneration /\ args.mechanism \in args.token)
    /\ call.rv # CKR_OK => call.rv = CKR_MECHANISM_INVALID
    /\ args.mechanism \notin AllowedGeneration => call.queries = 0

\* The deprecated EC generation mechanism has been rejected without a query
\* although the token reports it.
C14_Witness ==
  /\ call.name = "check_generation"
  /\ args.mechanism = "CKM_ECDSA_KEY_PAIR_GEN"
  /\ args.mechanism \in args.token
  /\ call.rv = CKR_MECHANISM_INVALID
  /\ call.queries = 0

\* C15: validate_derive_key_attribute returns AttributeValueInvalid exactly
\* for CKA_TOKEN other than false, CKA_CLASS other than secret-key,
\* CKA_KEY_TYPE other than generic-secret and CKA_EXTRACTABLE other than
\* true, and OK for every other type and value.
C15_DeriveTemplate ==
  call.name = "validate_derive" =>
    LET deviates == \/ args.type = "CKA_TOKEN" /\ args.value # 0
                    \/ args.type = "CKA_CLASS" /\ args.value # 4
                    \/ args.type = "CKA_KEY_TYPE" /\ args.value # 16
                    \/ args.type = "CKA_EXTRACTABLE" /\ args.value # 1
    IN /\ deviates => call.rv = "CKR_ATTRIBUTE_VALUE_INVALID"
       /\ ~deviates => call.rv = CKR_OK

\* CKA_EXTRACTABLE with a non-zero value other than CK_TRUE has been rejected.
C15_Witness ==
  /\ call.name = "validate_derive"
  /\ args.type = "CKA_EXTRACTABLE"
  /\ args.value = 2
  /\ call.rv = "CKR_ATTRIBUTE_VALUE_INVALID"

\* C16: stripping the DER encoding that apply-DER produces for a fixed-width
\* signature x of the expected width yields x again.
C16_DerRoundTrip ==
  call.name = "strip_der" => call.rv = CKR_OK /\ call.out = args.x

\* A signature whose halves have a leading zero byte and a set high bit has
\* gone through both conversions, the DER form being shorter than it is for
\* other signatures.
C16_Witness ==
  /\ call.name = "strip_der"
  /\ args.x[1] = 0
  /\ args.x[HalfLen + 1] >= 128
  /\ call.in_len # 2 * HalfLen + 6
  /\ call.out = args.x

\* C19: when every library call succeeds, verify_mechanism_init and
\* sign_mechanism_init return the same status for the same key, mechanism and
\* parameter block.
C19_InitStatusAgreement ==
  args.fail = "none" =>
    /\ call.name = "verify_init" =>
         call.rv = sign_mechanism_init(ZeroOpInfo, ZeroMem, args.key, args.mech,
                                       "none").rv
    /\ call.name = "sign_init" =>
         call.rv = verify_mechanism_init(ZeroOpInfo, ZeroMem, args.key, args.mech,
                                         "none").rv

\* verify_mechanism_init has rejected, after its contexts were set up, a
\* well-sized parameter block with an unrecognised MGF, with the status
\* sign_mechanism_init gives before any set-up.
C19_Witness ==
  /\ call.name = "verify_init"
  /\ args.fail = "none"
  /\ IsRsaKey(args.key)
  /\ args.mech.mechanism = "CKM_RSA_PKCS_PSS"
  /\ WellSized(args.mech)
  /\ NamedHash(args.mech.hashAlg) # "none"
  /\ NamedHash(args.mech.mgf) = "none"
  /\ call.rv = CKR_ARGUMENTS_BAD

\* The mechanisms that imply a hash computed by this module.
HashedVariants == HashedPkcsMechs \cup HashedPssMechs \cup HashedEcdsaMechs

\* C20 as stated: after every successful sign or verify init, md_ctx is
\* present exactly when the mechanism is a hashed variant.
C20_Original ==
  InitCalled /\ call.rv = CKR_OK =>
    (op_info.md_ctx # NULL <=> args.mech.mechanism \in HashedVariants)

\* C20 as the code has it: after a successful sign_mechanism_init md_ctx is
\* present exactly for the hashed variants; after a successful
\* verify_mechanism_init it is present exactly for the hashed variants and for
\* CKM_EDDSA, whose combined verification context it holds.
C20_AccumulatorPresence ==
  /\ call.name = "sign_init" /\ call.rv = CKR_OK =>
       (op_info.md_ctx # NULL <=> args.mech.mechanism \in HashedVariants)
  /\ call.name = "verify_init" /\ call.rv = CKR_OK =>
       (op_info.md_ctx # NULL <=>
          args.mech.mechanism \in HashedVariants \cup {"CKM_EDDSA"})

\* A successful verify_mechanism_init for CKM_EDDSA has left md_ctx present.
C20_Witness ==
  /\ call.name = "verify_init"
  /\ call.rv = CKR_OK
  /\ args.mech.mechanism = "CKM_EDDSA"
  /\ args.key = "ED25519"
  /\ op_info.md_ctx # NULL

\* An update of a verify operation is the step taken.
VerifyUpdateStep == caller.kind = "verify" /\ call'.name = "update"

\* The step fed in_len bytes to the context md_ctx and left the accumulator alone.
FedContext ==
  /\ op_info'.buf = op_info.buf
  /\ op_info'.buf_len = op_info.buf_len
  /\ mem'.heap[op_info.md_ctx].fed = mem.heap[op_info.md_ctx].fed + call'.in_len

\* The step put in_len bytes into the accumulator and fed no context.
Buffered ==
  /\ op_info'.buf_len = UAdd(op_info.buf_len, call'.in_len)
  /\ mem'.heap = mem.heap

\* C21 as stated: an update of a verify operation feeds the combined context
\* whenever md_ctx is present, leaving the accumulator unchanged, and appends
\* to the accumulator only when md_ctx is absent.
C21_Original ==
  [][VerifyUpdateStep /\ call'.rv = CKR_OK =>
       IF op_info.md_ctx # NULL THEN FedContext ELSE Buffered]_vars

\* C21 as the code has it: an update of a verify operation feeds the combined
\* context when md_ctx is present and the mechanism is not CKM_EDDSA, leaving
\* the accumulator unchanged; otherwise (no context, or CKM_EDDSA) it appends
\* the bytes to the accumulator; an update that fails changes neither.
C21_VerifyUpdateRouting ==
  [][VerifyUpdateStep =>
       IF call'.rv # CKR_OK THEN op_info' = op_info /\ mem'.heap = mem.heap
       ELSE IF op_info.md_ctx # NULL /\ op_info.mechanism # "CKM_EDDSA"
       THEN FedContext
       ELSE Buffered]_vars

\* An update of a CKM_EDDSA verify operation has put its bytes into the
\* accumulator although the combined context exists.
C21_Witness ==
  /\ caller.kind = "verify"
  /\ call.name = "update"
  /\ call.rv = CKR_OK
  /\ op_info.mechanism = "CKM_EDDSA"
  /\ op_info.md_ctx # NULL
  /\ call.in_len > 0
  /\ op_info.buf_len = call.in_len
  /\ mem.heap[op_info.md_ctx].fed = 0

\* The unkeyed hash mechanisms of the module and their natural output lengths.
NaturalLength(mechanism) ==
  CASE mechanism = "CKM_SHA_1" -> 20
    [] mechanism = "CKM_SHA256" -> 32
    [] mechanism = "CKM_SHA384" -> 48
    [] mechanism = "CKM_SHA512" -> 64
    [] OTHER -> 0

\* C22: digest_mechanism_init returns MechanismInvalid and opens no accumulator
\* for a mechanism that is not CKM_SHA_1, CKM_SHA256, CKM_SHA384 or CKM_SHA512;
\* when it accepts one of these it opens an accumulator, sets out_len to the
\* hash's natural length and buf_len to zero.
C22_DigestInit ==
  [][call'.name = "digest_init" /\ caller.kind = "idle" =>
       IF NaturalLength(op_info'.mechanism) = 0
       THEN /\ call'.rv = CKR_MECHANISM_INVALID
            /\ mem'.heap = mem.heap
            /\ op_info'.md_ctx = op_info.md_ctx
       ELSE call'.rv = CKR_OK =>
              /\ op_info'.md_ctx # NULL
              /\ ~mem.heap[op_info'.md_ctx].live
              /\ mem'.heap[op_info'.md_ctx].live
              /\ op_info'.out_len = NaturalLength(op_info'.mechanism)
              /\ op_info'.buf_len = 0]_vars

\* A SHA-384 digest operation has been opened with out_len 48.
C22_Witness ==
  /\ call.name = "digest_init"
  /\ call.rv = CKR_OK
  /\ op_info.mechanism = "CKM_SHA384"
  /\ op_info.md_ctx # NULL
  /\ mem.heap[op_info.md_ctx].live
  /\ op_info.out_len = 48

\* C23: digest_mechanism_final, whatever it returns, releases the accumulator
\* exactly once and leaves md_ctx null; a sign or verify cleanup that follows
\* releases nothing.
C23_DigestFinalReleases ==
  [][/\ call'.name = "digest_final" =>
          /\ call'.rv \in {CKR_OK, CKR_FUNCTION_FAILED}
          /\ op_info.md_ctx # NULL
          /\ mem.heap[op_info.md_ctx].live
          /\ mem'.freed = {op_info.md_ctx}
          /\ LiveIds(mem') = {}
          /\ mem'.faults = {}
          /\ op_info'.md_ctx = NULL
     /\ call.name = "digest_final" /\ call'.name \in Cleanups =>
          /\ mem'.freed = {}
          /\ mem'.heap = mem.heap
          /\ mem'.faults = {}
          /\ op_info'.md_ctx = NULL]_vars

\* A verify cleanup has followed the final of the session's first digest
\* operation and released nothing.
C23_Witness ==
  /\ call.name = "verify_cleanup"
  /\ caller.ops = 1
  /\ op_info.mechanism \in DigestMechs
  /\ op_info.md_ctx = NULL
  /\ mem.freed = {}
  /\ mem.faults = {}

\* A final of a CKM_RSA_X_509 sign operation is the step taken.
X509FinalStep ==
  /\ caller.kind = "sign"
  /\ call'.name = "sign_final"
  /\ op_info.mechanism = "CKM_RSA_X_509"
  /\ op_info.sign.padding = RSA_NO_PADDING

\* C24: with the no-padding scheme sign_mechanism_final gets to the hardware
\* only when the accumulator's length equals out_len; for every other length
\* it returns FunctionFailed without a hardware call.
C24_NoPaddingStrict ==
  [][X509FinalStep =>
       /\ call'.hw_calls = 1 => op_info.buf_len = op_info.out_len
       /\ op_info.buf_len # op_info.out_len =>
            call'.rv = CKR_FUNCTION_FAILED /\ call'.hw_calls = 0]_vars

\* A CKM_RSA_X_509 final has rejected an accumulator longer than out_len
\* although no library call was made to fail.
C24_Witness ==
  /\ call.name = "sign_final"
  /\ op_info.mechanism = "CKM_RSA_X_509"
  /\ op_info.sign.padding = RSA_NO_PADDING
  /\ call.fail = "none"
  /\ op_info.buf_len > op_info.out_len
  /\ op_info.out_len = 256
  /\ call.rv = CKR_FUNCTION_FAILED
  /\ call.hw_calls = 0

\* The padding schemes decrypt_mechanism_final knows.
DecryptPaddings == {RSA_NO_PADDING, RSA_PKCS1_PADDING, RSA_PKCS1_OAEP_PADDING}

\* The OAEP hash and the MGF hash of the session are both resolved.
OaepResolved == op_info.encrypt.oaep_md # "none" /\ op_info.encrypt.mgf1_md # "none"

\* C25: after a successful decrypt_mechanism_init the padding scheme is none,
\* type-2 or OAEP, and with OAEP the hash and the MGF hash are resolved;
\* decrypt_mechanism_final applies OAEP unpadding only with both resolved and
\* is never called with another padding scheme.
C25_OaepResolved ==
  /\ call.name = "decrypt_init" /\ call.rv = CKR_OK =>
       /\ op_info.encrypt.padding \in DecryptPaddings
       /\ op_info.encrypt.padding = RSA_PKCS1_OAEP_PADDING => OaepResolved
  /\ call.name = "decrypt_final" =>
       /\ op_info.encrypt.padding \in DecryptPaddings
       /\ call.unpads = 1 /\ op_info.encrypt.padding = RSA_PKCS1_OAEP_PADDING =>
            OaepResolved

\* The last call took the unpadded path of verify_mechanism_final, on which
\* the signature is copied for re-encoding.
UnpaddedVerifyFinal ==
  /\ call.name = "verify_final"
  /\ op_info.verify.padding = 0
  /\ op_info.mechanism # "CKM_EDDSA"

\* C27: verify_mechanism_final copies at most 1024 bytes into its DER scratch
\* buffer: on the unpadded path a signature longer than 1024 bytes is rejected
\* with FunctionFailed before any copy or verification, and a signature of up
\* to 1024 bytes is copied whole; on the other paths nothing is copied.
C27_DerScratchBounded ==
  /\ call.name = "verify_final" => call.copied <= 1024
  /\ UnpaddedVerifyFinal /\ call.in_len > 1024 =>
       call.rv = CKR_FUNCTION_FAILED /\ call.copied = 0 /\ call.prim = "none"
  /\ UnpaddedVerifyFinal /\ call.in_len <= 1024 => call.copied = call.in_len
  /\ call.name = "verify_final" /\ ~UnpaddedVerifyFinal => call.copied = 0

\* A signature of 1025 bytes has been rejected on the unpadded path without
\* a copy.
C27_Witness ==
  /\ UnpaddedVerifyFinal
  /\ call.in_len = 1025
  /\ call.rv = CKR_FUNCTION_FAILED
  /\ call.copied = 0
  /\ call.prim = "none"

\* A session's Operation Context with the hash context md_ctx points at in
\* place of the pointer.
SessionView(s, m) ==
  [ctx |-> [s EXCEPT !.md_ctx = NULL],
   has_md_ctx |-> s.md_ctx # NULL,
   md_ctx |-> IF s.md_ctx = NULL THEN FreeObj ELSE m.heap[s.md_ctx]]

\* Under every interleaving of the two sessions' calls, each session's
\* Operation Context (with the hash context it owns), every returned status
\* and every output are those of the session's calls run alone.
AsAlone ==
  /\ \A i \in Sessions :
       SessionView(op_info[i], mem) = SessionView(args[i].s, args[i].m)
  /\ call.rv = call.alone.rv
  /\ call.out = call.alone.out
  /\ mem.faults = UNION {args[i].m.faults : i \in Sessions}

====
